---- MODULE Spec2Model ----
(***************************************************************************)
(* Model of the isometric-permits viewer overlay.                          *)
(*                                                                         *)
(*  Part I  : NeighborhoodLabels (src/src/NeighborhoodLabels.ts), the LOD  *)
(*            label controller, driven by the events of the OpenSeadragon  *)
(*            viewer it is attached to.                                    *)
(*  Part II : the "Fetch permits" effect of App (src/src/App.tsx), the     *)
(*            periodic and daysBack-triggered data refresh.                *)
(*  Part III: the projection of src/src/coordinates.ts.                    *)
(*  Part IV : the work-type tables of src/src/permits.ts.                  *)
(*  Part V  : permit markers and fly-to of App (src/src/App.tsx).          *)
(*  Part VI : fetchPermits of src/src/permits.ts.                          *)
(*  Part VII: the ticker of App (src/src/App.tsx).                         *)
(*                                                                         *)
(* Zoom values are integers in hundredths of an OSD zoom unit (150 = 1.5). *)
(* A viewport coordinate is the exact fraction [n |-> .., d |-> ..].       *)
(***************************************************************************)
EXTENDS Integers, Sequences, FiniteSets, TLC

VARIABLES
    \* ---- viewer (OpenSeadragon.Viewer, environment of NeighborhoodLabels)
    vpReady,        \* viewer.viewport exists
    zoomT,          \* viewport.getZoom(): the target zoom
    zoomC,          \* the current (animated) zoom used by pixelFromPoint(.., true)
    centerT,        \* target centre, in image pixels
    centerC,        \* current centre, in image pixels
    \* ---- NeighborhoodLabels
    constructed,    \* the constructor has returned
    enabled,        \* this.enabled
    containerDisplay, \* this.container.style.display
    currentTier,    \* this.currentTier
    labels,         \* this.labels: id -> [tier, vpX, vpY, display, px]
    zoomRead,       \* the local `zoom` of the most recent updateTier()
    lastOp,         \* history: the operation that ran last
    prevTier,       \* history: this.currentTier when that operation started
    \* ---- App: fetch permits effect
    mounted,        \* the component is mounted
    daysBack,       \* filters.daysBack
    permits,        \* the permits state (a sequence of permit entities)
    loading,        \* the loading state
    error,          \* the error state (TRUE when the banner text is set)
    timer,          \* the live intervals: [run, days] of the effect run that set each
    effectRun,      \* number of runs of the fetch effect so far
    loads,          \* load() invocations: sequence of records, in start order
    \* ---- coordinates.ts: one evaluation of the projection
    pIn,            \* the arguments: [valid, lat, lng, k, cfg]
    pOut,           \* the results of that evaluation
    \* ---- permits.ts: one evaluation of the work-type functions
    jIn,            \* the arguments: [valid, jobType, workType]
    jOut,           \* the results: [valid, color, emoji, label, code]
    \* ---- App: viewer, markers and fly-to
    osd,            \* osdRef.current is a viewer
    dziLoaded,      \* the dziLoaded state
    overlayOn,      \* the overlayOn state
    jobTypes,       \* filters.jobTypes
    boroughs,       \* filters.boroughs
    overlays,       \* the viewer's overlays, in the order they were added
    overlayMarkers, \* overlayMarkersRef.current: key -> the permit of the marker
    drawerPermit,   \* the drawerPermit state
    panTarget,      \* the viewport point of the last panTo
    thrown,         \* the handler that ran last threw an exception
    mOp,            \* history: the operation of this part that ran last
    \* ---- permits.ts: one call of fetchPermits
    fIn,            \* the arguments and the environment of the call
    fOut,           \* its outcome
    \* ---- App: ticker
    tickerOpen,     \* the tickerOpen state
    tickerIndex,    \* the tickerIndex state
    tickerFlash,    \* the tickerFlash state: -1 = null
    tickerPaused,   \* tickerPausedRef.current
    tOp             \* history: the ticker operation that ran last

viewerVars == <<vpReady, zoomT, zoomC, centerT, centerC>>
labelVars  == <<constructed, enabled, containerDisplay, currentTier, labels, zoomRead,
                lastOp, prevTier>>
appVars    == <<mounted, daysBack, permits, loading, error, timer, effectRun, loads>>
projVars   == <<pIn, pOut>>
jobVars    == <<jIn, jOut>>
markVars   == <<osd, dziLoaded, overlayOn, jobTypes, boroughs, overlays, overlayMarkers,
                drawerPermit, panTarget, thrown, mOp>>
fetchVars  == <<fIn, fOut>>
tickVars   == <<tickerOpen, tickerIndex, tickerFlash, tickerPaused, tOp>>
vars       == <<viewerVars, labelVars, appVars, projVars, jobVars, markVars, fetchVars,
                tickVars>>

-----------------------------------------------------------------------------
(* Bounds of the model *)

\* width of the viewer container in screen pixels
ContainerW == 20
\* largest number of load() invocations in one behaviour
MaxLoads == 3
\* largest number of permits one fetch returns
MaxPermits == 2

\* the zoom values the viewer takes (hundredths): both sides of each threshold
ZoomVals == {100, 149, 150, 399, 400}
\* the centres the viewer pans to (image pixels)
Centers == { <<0, 0>>, <<61952, 50432>> }

-----------------------------------------------------------------------------
(* Part I : NeighborhoodLabels *)

IMAGE_DIMS == [width |-> 123904, height |-> 100864]

\* tier thresholds of updateTier, in hundredths
T1 == 150
T2 == 400
\* the zoom updateTier assumes when the viewer has no viewport (`?? 1`)
DefaultZoom == 100
\* the zoom of a viewport that has just been opened (image fitted to the container)
HomeZoom == 100

NoPx == << >>

\* Label sources: one label per LabelEntry tier, with the image pixel that
\* latlngToImagePx gives for its centroid.
LabelIds == {"MANHATTAN", "MN2501", "BK0102"}
LabelSrc ==
    [ MANHATTAN |-> [tier |-> "borough", x |-> 45059, y |-> 43479],
      MN2501    |-> [tier |-> "major",   x |-> 52000, y |-> 39000],
      BK0102    |-> [tier |-> "nta",     x |-> 60000, y |-> 70000] ]

toVp(x, y) ==
    [ vpX |-> [n |-> x, d |-> IMAGE_DIMS.width],
      vpY |-> [n |-> y, d |-> IMAGE_DIMS.width] ]

\* buildLabels: every label is projected once and starts hidden
buildLabels ==
    [ l \in LabelIds |->
        [ tier    |-> LabelSrc[l].tier,
          vpX     |-> toVp(LabelSrc[l].x, LabelSrc[l].y).vpX,
          vpY     |-> toVp(LabelSrc[l].x, LabelSrc[l].y).vpY,
          display |-> "none",
          px      |-> NoPx ] ]

\* viewport.pixelFromPoint(p, true): viewport point -> screen pixel under the
\* current zoom zc and current centre c (the container is square)
pixelFromPoint(vx, vy, zc, c) ==
    << ((vx.n * zc * ContainerW) \div (vx.d * 100))
         - ((c[1] * zc * ContainerW) \div (IMAGE_DIMS.width * 100)) + (ContainerW \div 2),
       ((vy.n * zc * ContainerW) \div (vy.d * 100))
         - ((c[2] * zc * ContainerW) \div (IMAGE_DIMS.width * 100)) + (ContainerW \div 2) >>

\* TierOf with both comparisons written `<=`
TierOf_inclusive(zoom) ==
    IF zoom <= T1 THEN 0
    ELSE IF zoom <= T2 THEN 1
    ELSE 2

\* the tier classification at the head of updateTier
TierOf(zoom) ==
    IF zoom < T1 THEN 0
    ELSE IF zoom < T2 THEN 1
    ELSE 2

\* Show with tier 1 showing the major labels only
Show_majorOnly(tier, l) ==
    \/ (tier = 0 /\ l.tier = "borough")
    \/ (tier = 1 /\ l.tier = "major")
    \/ (tier = 2)

\* the `show` expression of updateTier
Show(tier, l) ==
    \/ (tier = 0 /\ l.tier = "borough")
    \/ (tier = 1 /\ (l.tier = "borough" \/ l.tier = "major"))
    \/ (tier = 2)

\* draw without the `if (!viewport) return` guard
draw_noViewportGuard(ls, en, ready, zc, c) ==
    IF ~en THEN ls
    ELSE [ l \in DOMAIN ls |->
            IF ls[l].display = "none" THEN ls[l]
            ELSE [ls[l] EXCEPT !.px = pixelFromPoint(ls[l].vpX, ls[l].vpY, zc, c)] ]

\* draw writing the screen pixel back into the cached viewport point
draw_overwritesVp(ls, en, ready, zc, c) ==
    IF ~en THEN ls
    ELSE IF ~ready THEN ls
    ELSE [ l \in DOMAIN ls |->
            IF ls[l].display = "none" THEN ls[l]
            ELSE LET p == pixelFromPoint(ls[l].vpX, ls[l].vpY, zc, c)
                 IN  [ls[l] EXCEPT !.px = p,
                                   !.vpX = [n |-> p[1], d |-> 1],
                                   !.vpY = [n |-> p[2], d |-> 1]] ]

\* draw(): reposition every label that is not hidden
draw(ls, en, ready, zc, c) ==
    IF ~en THEN ls
    ELSE IF ~ready THEN ls
    ELSE [ l \in DOMAIN ls |->
            IF ls[l].display = "none" THEN ls[l]
            ELSE [ls[l] EXCEPT !.px = pixelFromPoint(ls[l].vpX, ls[l].vpY, zc, c)] ]

\* updateTier without the trailing this.draw()
updateTier_noDraw(cur, ls, en, ready, zt, zc, c) ==
    LET zoom == IF ready THEN zt ELSE DefaultZoom
        tier == TierOf(zoom)
    IN  IF tier = cur
        THEN [tier |-> cur, labels |-> ls, zoom |-> zoom]
        ELSE [tier   |-> tier,
              labels |-> [ l \in DOMAIN ls |->
                             [ls[l] EXCEPT !.display =
                                 IF Show(tier, ls[l]) THEN "" ELSE "none"] ],
              zoom   |-> zoom]

\* updateTier hiding every label before the `tier === this.currentTier` return
updateTier_hideFirst(cur, ls, en, ready, zt, zc, c) ==
    LET zoom == IF ready THEN zt ELSE DefaultZoom
        tier == TierOf(zoom)
        hidden == [ l \in DOMAIN ls |-> [ls[l] EXCEPT !.display = "none"] ]
    IN  IF tier = cur
        THEN [tier |-> cur, labels |-> hidden, zoom |-> zoom]
        ELSE [tier   |-> tier,
              labels |-> draw([ l \in DOMAIN ls |->
                                 [ls[l] EXCEPT !.display =
                                     IF Show(tier, ls[l]) THEN "" ELSE "none"] ],
                              en, ready, zc, c),
              zoom   |-> zoom]

\* updateTier(): result is [tier, labels, zoom]
updateTier(cur, ls, en, ready, zt, zc, c) ==
    LET zoom == IF ready THEN zt ELSE DefaultZoom
        tier == TierOf(zoom)
    IN  IF tier = cur
        THEN [tier |-> cur, labels |-> ls, zoom |-> zoom]
        ELSE [tier   |-> tier,
              labels |-> draw([ l \in DOMAIN ls |->
                                 [ls[l] EXCEPT !.display =
                                     IF Show(tier, ls[l]) THEN "" ELSE "none"] ],
                              en, ready, zc, c),
              zoom   |-> zoom]

\* ---- actions of the controller and its viewer

\* the tail of the constructor: the handlers are registered, updateTier() runs
Construct ==
    /\ ~constructed
    /\ LET r == updateTier(currentTier, labels, enabled, vpReady, zoomT, zoomC, centerC)
       IN  /\ currentTier' = r.tier
           /\ labels' = r.labels
           /\ zoomRead' = r.zoom
    /\ constructed' = TRUE
    /\ lastOp' = "construct" /\ prevTier' = currentTier
    /\ UNCHANGED <<enabled, containerDisplay, viewerVars, appVars, projVars, jobVars, markVars, fetchVars, tickVars>>

\* the viewer finishes loading: the viewport appears at the home zoom
ViewerOpen ==
    /\ ~vpReady
    /\ vpReady' = TRUE
    /\ zoomT' = HomeZoom /\ zoomC' = HomeZoom
    /\ \E c \in Centers : centerT' = c /\ centerC' = c
    /\ lastOp' = "open" /\ prevTier' = currentTier
    /\ UNCHANGED <<constructed, enabled, containerDisplay, currentTier, labels, zoomRead, appVars, projVars, jobVars, markVars, fetchVars, tickVars>>

\* 'zoom' event -> updateTier(); with a viewport the event comes from
\* viewport.zoomTo(z, _, immediately)
ZoomEvent(z, imm) ==
    /\ constructed
    /\ IF vpReady
       THEN /\ zoomT' = z
            /\ zoomC' = IF imm THEN z ELSE zoomC
       ELSE UNCHANGED <<zoomT, zoomC>>
    /\ LET r == updateTier(currentTier, labels, enabled, vpReady, zoomT', zoomC', centerC)
       IN  /\ currentTier' = r.tier
           /\ labels' = r.labels
           /\ zoomRead' = r.zoom
    /\ lastOp' = "zoom" /\ prevTier' = currentTier
    /\ UNCHANGED <<vpReady, centerT, centerC, constructed, enabled, containerDisplay, appVars, projVars, jobVars, markVars, fetchVars, tickVars>>

\* 'pan' event -> draw(); with a viewport the event comes from viewport.panTo(c, immediately)
PanEvent(c, imm) ==
    /\ constructed
    /\ IF vpReady
       THEN /\ centerT' = c
            /\ centerC' = IF imm THEN c ELSE centerC
       ELSE UNCHANGED <<centerT, centerC>>
    /\ labels' = draw(labels, enabled, vpReady, zoomC, centerC')
    /\ lastOp' = "pan" /\ prevTier' = currentTier
    /\ UNCHANGED <<vpReady, zoomT, zoomC, constructed, enabled, containerDisplay,
                   currentTier, zoomRead, appVars, projVars, jobVars, markVars, fetchVars, tickVars>>

\* 'update-viewport' event -> draw(); a frame in which the springs have moved
\* towards (zc, cc is the target or still the old value) their targets
UpdateViewport(zc, cc) ==
    /\ constructed
    /\ IF vpReady
       THEN /\ \/ (zoomC <= zc /\ zc <= zoomT) \/ (zoomT <= zc /\ zc <= zoomC)
            /\ cc \in {centerC, centerT}
            /\ zoomC' = zc
            /\ centerC' = cc
       ELSE /\ zc = zoomC /\ cc = centerC
            /\ UNCHANGED <<zoomC, centerC>>
    /\ labels' = draw(labels, enabled, vpReady, zoomC', centerC')
    /\ lastOp' = "update-viewport" /\ prevTier' = currentTier
    /\ UNCHANGED <<vpReady, zoomT, centerT, constructed, enabled, containerDisplay,
                   currentTier, zoomRead, appVars, projVars, jobVars, markVars, fetchVars, tickVars>>

\* setEnabled without `this.currentTier = -1`
resetTier_kept(cur) == cur

\* the `this.currentTier = -1` of setEnabled(true)
resetTier(cur) == -1

setEnabled(val) ==
    /\ constructed
    /\ enabled' = val
    /\ containerDisplay' = IF val THEN "" ELSE "none"
    /\ IF val
       THEN LET r == updateTier(resetTier(currentTier), labels, val, vpReady, zoomT, zoomC, centerC)
            IN  /\ currentTier' = r.tier
                /\ labels' = r.labels
                /\ zoomRead' = r.zoom
       ELSE UNCHANGED <<currentTier, labels, zoomRead>>
    /\ lastOp' = "setEnabled" /\ prevTier' = currentTier
    /\ UNCHANGED <<constructed, viewerVars, appVars, projVars, jobVars, markVars, fetchVars, tickVars>>

InitViewer ==
    /\ vpReady = FALSE
    /\ zoomT = HomeZoom /\ zoomC = HomeZoom
    /\ centerT = <<0, 0>> /\ centerC = <<0, 0>>

\* the field initialisers and buildLabels() have run
InitLabels ==
    /\ constructed = FALSE
    /\ enabled = TRUE
    /\ containerDisplay = ""
    /\ currentTier = -1
    /\ labels = buildLabels
    /\ zoomRead = 0
    /\ lastOp = "new"
    /\ prevTier = -1

InitApp ==
    /\ mounted = FALSE
    /\ daysBack = 1
    /\ permits = << >>
    /\ loading = TRUE
    /\ error = FALSE
    /\ timer = {}
    /\ effectRun = 0
    /\ loads = << >>

InitProj ==
    /\ pIn = [valid |-> FALSE]
    /\ pOut = [valid |-> FALSE]

InitJobs ==
    /\ jIn = [valid |-> FALSE]
    /\ jOut = [valid |-> FALSE]

ALL_JOB_TYPES ==
    <<"NB", "DM", "GC", "PL", "ME", "SOL", "SHD", "SCF", "FNC", "STR", "FND", "SG">>
ALL_BOROUGHS == <<"MANHATTAN", "BROOKLYN", "QUEENS", "BRONX", "STATEN ISLAND">>

\* the elements of a sequence
Range(s) == { s[i] : i \in DOMAIN s }

\* no permit (null)
NoPermit == [absent |-> TRUE]
\* no viewport point requested
NoPoint == [absent |-> TRUE]

\* the useState initialisers and the empty refs of App
InitMarkers ==
    /\ osd = FALSE
    /\ dziLoaded = FALSE
    /\ overlayOn = TRUE
    /\ jobTypes = Range(ALL_JOB_TYPES)
    /\ boroughs = Range(ALL_BOROUGHS)
    /\ overlays = << >>
    /\ overlayMarkers = << >>
    /\ drawerPermit = NoPermit
    /\ panTarget = NoPoint
    /\ thrown = FALSE
    /\ mOp = "init"

InitFetch ==
    /\ fIn = [valid |-> FALSE]
    /\ fOut = [valid |-> FALSE]

InitTicker ==
    /\ tickerOpen = TRUE
    /\ tickerIndex = 0
    /\ tickerFlash = -1
    /\ tickerPaused = FALSE
    /\ tOp = "init"

Init == InitViewer /\ InitLabels /\ InitApp /\ InitProj /\ InitJobs /\ InitMarkers
        /\ InitFetch /\ InitTicker

-----------------------------------------------------------------------------
(* Part II : the "Fetch permits" effect of App *)

\* the date-range chips
DaysBackChoices == {1, 7, 30}

\* the list a fetch started as load number id returns when it yields n permits
FetchResult(id, n) == [ i \in 1..n |-> [src |-> id, idx |-> i] ]

\* setPermits appending to the previous list
setPermits_append(prev, data) == prev \o data

\* setPermits(data): the new permits state
setPermits(prev, data) == data

\* the synchronous head of load(): setLoading(true), setError(null), and the
\* call of fetchPermits(filters.daysBack) with the daysBack of the effect run
StartLoad(d, run, by) ==
    /\ loading' = TRUE
    /\ error' = FALSE
    /\ loads' = Append(loads, [days |-> d, run |-> run, by |-> by,
                               status |-> "flight", data |-> << >>])

\* the cleanup of effect run `run`: clearInterval(interval).  An interval is
\* [run, days]: the effect run that set it and the daysBack its load closes over
cleanup(timers, run) == { t \in timers : t.run # run }

\* one run of the effect without the cleanup of the run before it
RunEffect_noCleanup(d) ==
    /\ permits' = setPermits(permits, << >>)
    /\ StartLoad(d, effectRun + 1, "effect")
    /\ effectRun' = effectRun + 1
    /\ timer' = timer \cup {[run |-> effectRun + 1, days |-> d]}

\* one run of the effect: the cleanup of the run before it, then the body:
\* setPermits([]), load(), setInterval(load, 5 min)
RunEffect(d) ==
    /\ permits' = setPermits(permits, << >>)
    /\ StartLoad(d, effectRun + 1, "effect")
    /\ effectRun' = effectRun + 1
    /\ timer' = cleanup(timer, effectRun) \cup {[run |-> effectRun + 1, days |-> d]}

\* first render: the effect runs with the initial filters
Mount ==
    /\ ~mounted /\ effectRun = 0
    /\ mounted' = TRUE
    /\ RunEffect(daysBack)
    /\ UNCHANGED <<daysBack, viewerVars, labelVars, projVars, jobVars, markVars, fetchVars, tickVars>>

\* a date-range chip is clicked: setFilters; when daysBack changed the effect's
\* cleanup (clearInterval) runs and then the effect runs again
SetDaysBack(d) ==
    /\ mounted
    /\ d # daysBack
    /\ Len(loads) < MaxLoads
    /\ daysBack' = d
    /\ RunEffect(d)
    /\ UNCHANGED <<mounted, viewerVars, labelVars, projVars, jobVars, markVars, fetchVars, tickVars>>

\* a live interval fires: load() of the effect run that created it
TimerTick ==
    /\ Len(loads) < MaxLoads
    /\ \E t \in timer : StartLoad(t.days, t.run, "timer")
    /\ UNCHANGED <<mounted, daysBack, permits, timer, effectRun, viewerVars, labelVars, projVars, jobVars, markVars, fetchVars, tickVars>>

\* fetchPermits of load i resolves with n permits: setPermits(data), then the
\* finally block; state updates of an unmounted component are dropped
FetchResolve(i, n) ==
    /\ i \in 1..Len(loads) /\ loads[i].status = "flight"
    /\ LET data == FetchResult(i, n)
       IN  /\ loads' = [loads EXCEPT ![i].status = "ok", ![i].data = data]
           /\ IF mounted
              THEN permits' = setPermits(permits, data) /\ loading' = FALSE
              ELSE UNCHANGED <<permits, loading>>
    /\ UNCHANGED <<mounted, daysBack, error, timer, effectRun, viewerVars, labelVars, projVars, jobVars, markVars, fetchVars, tickVars>>

\* the catch block emptying the list as well
FetchReject_clearsList(i) ==
    /\ i \in 1..Len(loads) /\ loads[i].status = "flight"
    /\ loads' = [loads EXCEPT ![i].status = "failed"]
    /\ IF mounted
       THEN error' = TRUE /\ loading' = FALSE /\ permits' = setPermits(permits, << >>)
       ELSE UNCHANGED <<error, loading, permits>>
    /\ UNCHANGED <<mounted, daysBack, timer, effectRun, viewerVars, labelVars, projVars, jobVars, markVars, fetchVars, tickVars>>

\* fetchPermits of load i throws: the catch block, then the finally block
FetchReject(i) ==
    /\ i \in 1..Len(loads) /\ loads[i].status = "flight"
    /\ loads' = [loads EXCEPT ![i].status = "failed"]
    /\ IF mounted
       THEN error' = TRUE /\ loading' = FALSE
       ELSE UNCHANGED <<error, loading>>
    /\ UNCHANGED <<mounted, daysBack, permits, timer, effectRun, viewerVars, labelVars, projVars, jobVars, markVars, fetchVars, tickVars>>

\* the component is torn down: the effect's cleanup clears the interval
Unmount ==
    /\ mounted
    /\ mounted' = FALSE
    /\ timer' = cleanup(timer, effectRun)
    /\ UNCHANGED <<daysBack, permits, loading, error, effectRun, loads, viewerVars, labelVars, projVars, jobVars, markVars, fetchVars, tickVars>>

NextRefresh ==
    \/ Mount
    \/ \E d \in DaysBackChoices : SetDaysBack(d)
    \/ TimerTick
    \/ \E i \in 1..MaxLoads, n \in 0..MaxPermits : FetchResolve(i, n)
    \/ \E i \in 1..MaxLoads : FetchReject(i)
    \/ Unmount

SpecRefresh == Init /\ [][NextRefresh]_vars

NextLabels ==
    \/ Construct
    \/ ViewerOpen
    \/ \E z \in ZoomVals, imm \in BOOLEAN : ZoomEvent(z, imm)
    \/ \E c \in Centers, imm \in BOOLEAN : PanEvent(c, imm)
    \/ \E zc \in ZoomVals, cc \in Centers : UpdateViewport(zc, cc)
    \/ \E val \in BOOLEAN : setEnabled(val)

SpecLabels == Init /\ [][NextLabels]_vars

-----------------------------------------------------------------------------
(* Part III : the projection of coordinates.ts                             *)
(*                                                                         *)
(* A JavaScript number is modelled as an exact fraction [n |-> , d |-> ]   *)
(* in lowest terms with d > 0; rounding of doubles is not modelled.        *)

RECURSIVE GCD(_, _)
GCD(a, b) == IF b = 0 THEN a ELSE GCD(b, a % b)

Abs(i) == IF i < 0 THEN -i ELSE i

\* the number n/d in lowest terms
Rat(n, d) ==
    LET g == GCD(Abs(n), Abs(d))
        sgn == IF d < 0 THEN -1 ELSE 1
    IN  [n |-> sgn * (n \div g), d |-> sgn * (d \div g)]

RInt(i) == [n |-> i, d |-> 1]

RNeg(a) == [n |-> -a.n, d |-> a.d]

RAdd(a, b) ==
    LET g == GCD(a.d, b.d)
    IN  Rat(a.n * (b.d \div g) + b.n * (a.d \div g), (a.d \div g) * b.d)

RSub(a, b) == RAdd(a, RNeg(b))

RMul(a, b) ==
    LET g1 == GCD(Abs(a.n), b.d)
        g2 == GCD(Abs(b.n), a.d)
    IN  IF a.n = 0 \/ b.n = 0 THEN RInt(0)
        ELSE [n |-> (a.n \div g1) * (b.n \div g2), d |-> (a.d \div g2) * (b.d \div g1)]

RDiv(a, b) == RMul(a, Rat(b.d, b.n))

RLess(a, b) == RSub(a, b).n < 0

\* largest integer not above a
RFloor(a) == a.n \div a.d

\* Math.cos and Math.sin at the angles (degrees) the configuration uses,
\* rounded to the nearest sixteenth (a binary fraction, as a double is):
\* cos 40.7484 = 0.7576, cos -15 = 0.9659, sin -15 = -0.2588, sin -45 = -0.7071
CosDeg(a) ==
    CASE a = Rat(407484, 10000) -> Rat(12, 16)
      [] a = RInt(-15)          -> Rat(15, 16)
      [] a = RInt(0)            -> RInt(1)

SinDeg(a) ==
    CASE a = RInt(-15) -> Rat(-4, 16)
      [] a = RInt(-45) -> Rat(-11, 16)
      [] a = RInt(0)   -> RInt(0)

MAP_CONFIG ==
    [ seed |-> [lat |-> Rat(407484, 10000), lng |-> Rat(-739857, 10000)],
      camera_azimuth_degrees   |-> RInt(-15),
      camera_elevation_degrees |-> RInt(-45),
      width_px  |-> RInt(1024),
      height_px |-> RInt(1024),
      view_height_meters |-> RInt(300),
      tile_step |-> Rat(1, 2) ]

SEED_PX == [x |-> RInt(45059), y |-> RInt(43479)]

\* meters per degree of latitude, the literal 111111.0
MetersPerDegree == 111111

\* the `* 512` of latlngToImagePx
QUADRANT_PX == 512

\* latlngToQuadrantCoords with the X shift scaled by view_height_meters / width_px
latlngToQuadrantCoords_widthMpp(config, lat, lng) ==
    LET metersPerPixel == RDiv(config.view_height_meters, config.height_px)
        metersPerPixelX == RDiv(config.view_height_meters, config.width_px)
        deltaNorthMeters == RMul(RSub(lat, config.seed.lat), RInt(MetersPerDegree))
        deltaEastMeters ==
            RMul(RMul(RSub(lng, config.seed.lng), RInt(MetersPerDegree)),
                 CosDeg(config.seed.lat))
        cosA == CosDeg(config.camera_azimuth_degrees)
        sinA == SinDeg(config.camera_azimuth_degrees)
        deltaRotX == RSub(RMul(deltaEastMeters, cosA), RMul(deltaNorthMeters, sinA))
        deltaRotY == RAdd(RMul(deltaEastMeters, sinA), RMul(deltaNorthMeters, cosA))
        sinElev == SinDeg(config.camera_elevation_degrees)
        shiftRightMeters == deltaRotX
        shiftUpMeters == RMul(RNeg(deltaRotY), sinElev)
        shiftXPx == RDiv(shiftRightMeters, metersPerPixelX)
        shiftYPx == RDiv(shiftUpMeters, metersPerPixel)
        quadrantStepPx == RMul(config.width_px, config.tile_step)
    IN  [ qx |-> RDiv(shiftXPx, quadrantStepPx),
          qy |-> RDiv(RNeg(shiftYPx), quadrantStepPx) ]

latlngToQuadrantCoords(config, lat, lng) ==
    LET metersPerPixel == RDiv(config.view_height_meters, config.height_px)
        deltaNorthMeters == RMul(RSub(lat, config.seed.lat), RInt(MetersPerDegree))
        deltaEastMeters ==
            RMul(RMul(RSub(lng, config.seed.lng), RInt(MetersPerDegree)),
                 CosDeg(config.seed.lat))
        cosA == CosDeg(config.camera_azimuth_degrees)
        sinA == SinDeg(config.camera_azimuth_degrees)
        deltaRotX == RSub(RMul(deltaEastMeters, cosA), RMul(deltaNorthMeters, sinA))
        deltaRotY == RAdd(RMul(deltaEastMeters, sinA), RMul(deltaNorthMeters, cosA))
        sinElev == SinDeg(config.camera_elevation_degrees)
        shiftRightMeters == deltaRotX
        shiftUpMeters == RMul(RNeg(deltaRotY), sinElev)
        shiftXPx == RDiv(shiftRightMeters, metersPerPixel)
        shiftYPx == RDiv(shiftUpMeters, metersPerPixel)
        quadrantStepPx == RMul(config.width_px, config.tile_step)
    IN  [ qx |-> RDiv(shiftXPx, quadrantStepPx),
          qy |-> RDiv(RNeg(shiftYPx), quadrantStepPx) ]

\* the legacy quadrantToImagePixel: no seed pixel is added
quadrantToImagePixel(qx, qy) ==
    [ x |-> RMul(qx, RInt(QUADRANT_PX)), y |-> RMul(qy, RInt(QUADRANT_PX)) ]

\* latlngToImagePx through the legacy quadrantToImagePixel
latlngToImagePx_legacy(lat, lng) ==
    LET q == latlngToQuadrantCoords(MAP_CONFIG, lat, lng)
    IN  quadrantToImagePixel(q.qx, q.qy)

\* latlngToImagePx rounding down to whole pixels
latlngToImagePx_floored(lat, lng) ==
    LET q == latlngToQuadrantCoords(MAP_CONFIG, lat, lng)
    IN  [ x |-> RInt(RFloor(RAdd(SEED_PX.x, RMul(q.qx, RInt(QUADRANT_PX))))),
          y |-> RInt(RFloor(RAdd(SEED_PX.y, RMul(q.qy, RInt(QUADRANT_PX))))) ]

latlngToImagePx(lat, lng) ==
    LET q == latlngToQuadrantCoords(MAP_CONFIG, lat, lng)
    IN  [ x |-> RAdd(SEED_PX.x, RMul(q.qx, RInt(QUADRANT_PX))),
          y |-> RAdd(SEED_PX.y, RMul(q.qy, RInt(QUADRANT_PX))) ]

\* displacements from the seed, in 1/10000 degree
Steps == {-2000, -400, 0, 200, 1000}
\* the factors a displacement is scaled by
Factors == { Rat(1, 2), RInt(1), RInt(2) }
\* configurations: MAP_CONFIG and MAP_CONFIG with another view height or
\* reference pixel height
Configs ==
    { MAP_CONFIG,
      [MAP_CONFIG EXCEPT !.view_height_meters = RInt(600)],
      [MAP_CONFIG EXCEPT !.height_px = RInt(2048)] }

\* one evaluation: the point seed + (dLat, dLng), the point seed + k (dLat, dLng),
\* and the quadrant coordinates of the first under cfg
Project(dLat, dLng, k, cfg) ==
    LET seed == MAP_CONFIG.seed
        lat  == RAdd(seed.lat, Rat(dLat, 10000))
        lng  == RAdd(seed.lng, Rat(dLng, 10000))
        latK == RAdd(seed.lat, RMul(k, Rat(dLat, 10000)))
        lngK == RAdd(seed.lng, RMul(k, Rat(dLng, 10000)))
    IN  /\ pIn' = [valid |-> TRUE, lat |-> lat, lng |-> lng, k |-> k, cfg |-> cfg]
        /\ pOut' = [ valid  |-> TRUE,
                     px     |-> latlngToImagePx(lat, lng),
                     pxK    |-> latlngToImagePx(latK, lngK),
                     q      |-> latlngToQuadrantCoords(cfg, lat, lng),
                     qMap   |-> latlngToQuadrantCoords(MAP_CONFIG, lat, lng) ]
        /\ UNCHANGED <<viewerVars, labelVars, appVars, jobVars, markVars, fetchVars, tickVars>>

NextProjection ==
    \E dLat \in Steps, dLng \in Steps, k \in Factors, cfg \in Configs :
        Project(dLat, dLng, k, cfg)

SpecProjection == Init /\ [][NextProjection]_vars

-----------------------------------------------------------------------------
(***************************************************************************)
(* Part IV : the work-type tables of permits.ts                            *)
(*                                                                         *)
(* A job-type code is a string.  A work-type description is the sequence   *)
(* of its characters, so that toLowerCase() and includes() are computed.   *)
(* An emoji is written as the code point of its first character.           *)
(***************************************************************************)

\* the value of a property the object does not have
Undefined == "undefined"
\* the value of a property found on Object.prototype (a function or an object)
Inherited == "[Object.prototype]"
\* property names every object literal inherits
ObjectPrototypeKeys ==
    { "constructor", "toString", "valueOf", "hasOwnProperty", "isPrototypeOf",
      "propertyIsEnumerable", "toLocaleString", "__proto__" }

\* table[key] of a Record<string, string> object literal
Index(table, key) ==
    IF key \in DOMAIN table THEN table[key]
    ELSE IF key \in ObjectPrototypeKeys THEN Inherited
    ELSE Undefined

\* v ?? dflt
Nullish(v, dflt) == IF v = Undefined THEN dflt ELSE v

WORK_TYPE_LABELS ==
       "NB"  :> "New Building" @@
       "DM"  :> "Demolition" @@
       "GC"  :> "General Construction" @@
       "PL"  :> "Plumbing" @@
       "ME"  :> "Mechanical" @@
       "SOL" :> "Solar" @@
       "SHD" :> "Sidewalk Shed" @@
       "SCF" :> "Scaffold" @@
       "FNC" :> "Const. Fence" @@
       "SG"  :> "Sign" @@
       "FND" :> "Foundation" @@
       "STR" :> "Structural" @@
       "BLR" :> "Boiler" @@
       "SPR" :> "Sprinklers" @@
       "EW"  :> "Earth Work" @@
       "ANT" :> "Antenna" @@
       "CC"  :> "Curb Cut" @@
       "STP" :> "Standpipe" @@
       "OTH" :> "Other"

WORK_TYPE_COLORS ==
       "NB"  :> "#00ff88" @@
       "DM"  :> "#ff3333" @@
       "GC"  :> "#ff8800" @@
       "PL"  :> "#7777ff" @@
       "ME"  :> "#00ccff" @@
       "SOL" :> "#ffff00" @@
       "SHD" :> "#aaaaaa" @@
       "SCF" :> "#bbbbbb" @@
       "FNC" :> "#999999" @@
       "SG"  :> "#ff77ff" @@
       "FND" :> "#cc8844" @@
       "STR" :> "#ff9944" @@
       "BLR" :> "#ff6644" @@
       "SPR" :> "#44ccff" @@
       "EW"  :> "#88ff44" @@
       "ANT" :> "#cc44ff" @@
       "CC"  :> "#888888" @@
       "STP" :> "#4488ff" @@
       "OTH" :> "#666666"

WORK_TYPE_EMOJIS ==
       "NB"  :> "U+1F3D7" @@
       "DM"  :> "U+1F4A5" @@
       "GC"  :> "U+1F528" @@
       "PL"  :> "U+1F535" @@
       "ME"  :> "U+2699" @@
       "SOL" :> "U+2600" @@
       "SHD" :> "U+1F3DA" @@
       "SCF" :> "U+1FA9C" @@
       "FNC" :> "U+1F6A7" @@
       "SG"  :> "U+1F4CB" @@
       "FND" :> "U+1FAA8" @@
       "STR" :> "U+1F529" @@
       "BLR" :> "U+1F525" @@
       "SPR" :> "U+1F4A7" @@
       "EW"  :> "U+1F30D" @@
       "ANT" :> "U+1F4E1" @@
       "CC"  :> "U+1F6E4" @@
       "STP" :> "U+1F6BF" @@
       "OTH" :> "U+1F4CC"

getJobColor(jobType) == Nullish(Index(WORK_TYPE_COLORS, jobType), "#666666")

getJobEmoji_noDefault(jobType) == Index(WORK_TYPE_EMOJIS, jobType)

getJobEmoji(jobType) == Nullish(Index(WORK_TYPE_EMOJIS, jobType), "U+1F4CC")

getJobLabel(jobType) == Nullish(Index(WORK_TYPE_LABELS, jobType), jobType)

\* String.prototype.toLowerCase on the letters A..Z
LowerOf ==
    "A" :> "a" @@ "B" :> "b" @@ "C" :> "c" @@ "D" :> "d" @@ "E" :> "e" @@ "F" :> "f" @@
    "G" :> "g" @@ "H" :> "h" @@ "I" :> "i" @@ "J" :> "j" @@ "K" :> "k" @@ "L" :> "l" @@
    "M" :> "m" @@ "N" :> "n" @@ "O" :> "o" @@ "P" :> "p" @@ "Q" :> "q" @@ "R" :> "r" @@
    "S" :> "s" @@ "T" :> "t" @@ "U" :> "u" @@ "V" :> "v" @@ "W" :> "w" @@ "X" :> "x" @@
    "Y" :> "y" @@ "Z" :> "z"

toLowerCase(s) == [ i \in 1..Len(s) |-> IF s[i] \in DOMAIN LowerOf THEN LowerOf[s[i]] ELSE s[i] ]

\* String.prototype.includes
includes(s, sub) ==
    \E i \in 0..(Len(s) - Len(sub)) : SubSeq(s, i + 1, i + Len(sub)) = sub

\* the keywords of workTypeToCode, in the order they are tested, with their codes
Keywords ==
    << [kw |-> <<"n", "e", "w", " ", "b", "u", "i", "l", "d", "i", "n", "g">>, code |-> "NB"],
       [kw |-> <<"f", "u", "l", "l", " ", "d", "e", "m", "o", "l", "i", "t", "i", "o", "n">>, code |-> "DM"],
       [kw |-> <<"g", "e", "n", "e", "r", "a", "l", " ", "c", "o", "n", "s", "t", "r", "u", "c", "t", "i", "o", "n">>, code |-> "GC"],
       [kw |-> <<"p", "l", "u", "m", "b", "i", "n", "g">>, code |-> "PL"],
       [kw |-> <<"m", "e", "c", "h", "a", "n", "i", "c", "a", "l">>, code |-> "ME"],
       [kw |-> <<"s", "o", "l", "a", "r">>, code |-> "SOL"],
       [kw |-> <<"s", "i", "d", "e", "w", "a", "l", "k", " ", "s", "h", "e", "d">>, code |-> "SHD"],
       [kw |-> <<"s", "c", "a", "f", "f", "o", "l", "d">>, code |-> "SCF"],
       [kw |-> <<"c", "o", "n", "s", "t", "r", "u", "c", "t", "i", "o", "n", " ", "f", "e", "n", "c", "e">>, code |-> "FNC"],
       [kw |-> <<"s", "i", "g", "n">>, code |-> "SG"],
       [kw |-> <<"f", "o", "u", "n", "d", "a", "t", "i", "o", "n">>, code |-> "FND"],
       [kw |-> <<"s", "t", "r", "u", "c", "t", "u", "r", "a", "l">>, code |-> "STR"],
       [kw |-> <<"b", "o", "i", "l", "e", "r">>, code |-> "BLR"],
       [kw |-> <<"s", "p", "r", "i", "n", "k", "l", "e", "r">>, code |-> "SPR"],
       [kw |-> <<"e", "a", "r", "t", "h", " ", "w", "o", "r", "k">>, code |-> "EW"],
       [kw |-> <<"a", "n", "t", "e", "n", "n", "a">>, code |-> "ANT"],
       [kw |-> <<"c", "u", "r", "b", " ", "c", "u", "t">>, code |-> "CC"],
       [kw |-> <<"s", "t", "a", "n", "d", "p", "i", "p", "e">>, code |-> "STP"] >>

\* the code of the first keyword at or after position i that wt includes
RECURSIVE firstMatch(_, _)
firstMatch(wt, i) ==
    IF i > Len(Keywords) THEN "OTH"
    ELSE IF includes(wt, Keywords[i].kw) THEN Keywords[i].code
    ELSE firstMatch(wt, i + 1)

workTypeToCode(workType) ==
    LET wt == toLowerCase(workType)
    IN  firstMatch(wt, 1)

\* job-type strings: every key of the tables, and strings that are not keys
JobTypeSamples ==
    { "NB", "DM", "GC", "PL", "ME", "SOL", "SHD",
      "SCF", "FNC", "SG", "FND", "STR", "BLR", "SPR",
      "EW", "ANT", "CC", "STP", "OTH", "", "OTHER",
      "XYZ", "nb", "A1", "A2", "constructor", "toString" }

\* work-type descriptions as the datasets carry them
WorkTypeSamples ==
    { <<"P", "l", "u", "m", "b", "i", "n", "g">>,
      <<"P", "L", "U", "M", "B", "I", "N", "G">>,
      <<"G", "e", "n", "e", "r", "a", "l", " ", "C", "o", "n", "s", "t", "r", "u", "c", "t", "i", "o", "n">>,
      <<"S", "i", "d", "e", "w", "a", "l", "k", " ", "S", "h", "e", "d">>,
      <<"S", "t", "r", "u", "c", "t", "u", "r", "a", "l", " ", "D", "e", "s", "i", "g", "n">>,
      <<"D", "e", "m", "o", "l", "i", "t", "i", "o", "n">>,
      <<"I", "n", "t", "e", "r", "i", "o", "r", " ", "R", "e", "n", "o", "v", "a", "t", "i", "o", "n">>,
      <<"E", "l", "e", "v", "a", "t", "o", "r">>,
      <<>>,
      <<"C", "u", "r", "b", " ", "C", "u", "t">> }

\* one evaluation of the four functions
LookUp(jobType, workType) ==
    /\ jIn' = [valid |-> TRUE, jobType |-> jobType, workType |-> workType]
    /\ jOut' = [ valid |-> TRUE,
                 color |-> getJobColor(jobType),
                 emoji |-> getJobEmoji(jobType),
                 label |-> getJobLabel(jobType),
                 code  |-> workTypeToCode(workType) ]
    /\ UNCHANGED <<viewerVars, labelVars, appVars, projVars, markVars, fetchVars, tickVars>>

NextJobTypes ==
    \E jobType \in JobTypeSamples, workType \in WorkTypeSamples : LookUp(jobType, workType)

SpecJobTypes == Init /\ [][NextJobTypes]_vars

-----------------------------------------------------------------------------
(***************************************************************************)
(* Part V : permit markers and fly-to of App (src/src/App.tsx)             *)
(*                                                                         *)
(* A permit is a record holding the fields the dataset row carries; a      *)
(* field the row lacks is absent from the record.  latitude and longitude  *)
(* are the sequences of their characters, so that parseFloat is computed.  *)
(* A viewport point is [x, y] of exact rationals.                          *)
(***************************************************************************)

\* the value of a `const` declaration: S is the singleton of the initialiser,
\* which is evaluated once
Const(S) == CHOOSE v \in S : TRUE

\* permit.f ?? dflt
Field(permit, f, dflt) == IF f \in DOMAIN permit THEN permit[f] ELSE dflt

DigitVal ==
    "0" :> 0 @@ "1" :> 1 @@ "2" :> 2 @@ "3" :> 3 @@ "4" :> 4 @@
    "5" :> 5 @@ "6" :> 6 @@ "7" :> 7 @@ "8" :> 8 @@ "9" :> 9

\* the first position at or after i of s that holds no blank
RECURSIVE skipBlanks(_, _)
skipBlanks(s, i) == IF i <= Len(s) /\ s[i] = " " THEN skipBlanks(s, i + 1) ELSE i

\* the first position at or after i of s that holds no digit
RECURSIVE digitsEnd(_, _)
digitsEnd(s, i) ==
    IF i <= Len(s) /\ s[i] \in DOMAIN DigitVal THEN digitsEnd(s, i + 1) ELSE i

\* the decimal number written by the digits s[i], ..., s[j-1]
RECURSIVE digitsValue(_, _, _)
digitsValue(s, i, j) ==
    IF i >= j THEN 0 ELSE digitsValue(s, i, j - 1) * 10 + DigitVal[s[j - 1]]

RECURSIVE Pow10(_)
Pow10(k) == IF k = 0 THEN 1 ELSE 10 * Pow10(k - 1)

\* the result of a parse that found no number
NaN == [nan |-> TRUE]

\* parseFloat: leading blanks, an optional sign, digits with an optional
\* fraction; what follows the number is ignored.  (No exponent, no Infinity.)
parseFloat(s) ==
    LET a       == skipBlanks(s, 1)
        neg     == a <= Len(s) /\ s[a] = "-"
        b       == IF a <= Len(s) /\ s[a] \in {"-", "+"} THEN a + 1 ELSE a
        c       == digitsEnd(s, b)
        hasDot  == c <= Len(s) /\ s[c] = "."
        d       == IF hasDot THEN digitsEnd(s, c + 1) ELSE c
        intLen  == c - b
        fracLen == IF hasDot THEN d - (c + 1) ELSE 0
        mant    == digitsValue(s, b, c) * Pow10(fracLen)
                     + (IF hasDot THEN digitsValue(s, c + 1, d) ELSE 0)
    IN  IF intLen + fracLen = 0 THEN NaN
        ELSE [nan |-> FALSE, v |-> Rat((IF neg THEN -1 ELSE 1) * mant, Pow10(fracLen))]

isNaN(x) == x.nan

\* String.prototype.toUpperCase on the strings of the model that are not upper case
UpperCaseOf == "Queens" :> "QUEENS" @@ "nb" :> "NB"
toUpperCase(s) == IF s \in DOMAIN UpperCaseOf THEN UpperCaseOf[s] ELSE s

\* the filter predicate letting every unlisted job type through
matchesFilters_unlistedPass(p, jts, bors) ==
    LET jt == IF "job_type" \in DOMAIN p THEN toUpperCase(p.job_type) ELSE "OTHER"
        borough == IF "borough" \in DOMAIN p THEN toUpperCase(p.borough) ELSE ""
        jobTypeMatch == jt \in jts \/ jt \notin Range(ALL_JOB_TYPES)
        boroughMatch == borough \in bors
    IN  jobTypeMatch /\ boroughMatch

\* the filter predicate of filteredPermits
matchesFilters(p, jts, bors) ==
    LET jt == IF "job_type" \in DOMAIN p THEN toUpperCase(p.job_type) ELSE "OTHER"
        borough == IF "borough" \in DOMAIN p THEN toUpperCase(p.borough) ELSE ""
        jobTypeMatch == jt \in jts \/ (jt \notin Range(ALL_JOB_TYPES) /\ "OTHER" \in jts)
        boroughMatch == borough \in bors
    IN  jobTypeMatch /\ boroughMatch

\* permits.filter(..) under the filters jts, bors
RECURSIVE filtered(_, _, _)
filtered(ps, jts, bors) ==
    IF ps = << >> THEN << >>
    ELSE (IF matchesFilters(Head(ps), jts, bors) THEN <<Head(ps)>> ELSE << >>)
            \o filtered(Tail(ps), jts, bors)

filteredPermits == filtered(permits, jobTypes, boroughs)

\* the literals of `getZoom() > 4 ? getZoom() : 6`, in hundredths
FlyKeepAbove == 400
FlyZoom == 600

\* the key of a marker in overlayMarkersRef: `job-<number>` or `idx-<index>`
markerKey(permit, idx) ==
    IF Field(permit, "job_filing_number", "") # ""
    THEN [job |-> permit.job_filing_number]
    ELSE [idx |-> idx]

\* at the seed
PermitSeed ==
    [ job_filing_number |-> "B00501",
      job_type |-> "NB",
      borough |-> "MANHATTAN",
      latitude |-> <<"4", "0", ".", "7", "4", "8", "4">>,
      longitude |-> <<"-", "7", "3", ".", "9", "8", "5", "7">> ]

\* inside the image; the borough is not upper case, the latitude has a leading blank
PermitEast ==
    [ job_filing_number |-> "Q00502",
      job_type |-> "GC",
      borough |-> "Queens",
      latitude |-> <<" ", "4", "0", ".", "7", "6", "8", "4">>,
      longitude |-> <<"-", "7", "3", ".", "8", "8", "5", "7">> ]

\* below the image: imageY is between the image height and the image width
PermitSouth ==
    [ job_filing_number |-> "Q00503",
      job_type |-> "PL",
      borough |-> "QUEENS",
      latitude |-> <<"4", "0", ".", "5", "4", "8", "4">>,
      longitude |-> <<"-", "7", "3", ".", "7", "8", "5", "7">> ]

\* above the image: imageY < 0; no filing number
PermitNorth ==
    [ job_type |-> "NB",
      borough |-> "BRONX",
      latitude |-> <<"4", "0", ".", "9", "4", "8", "4">>,
      longitude |-> <<"-", "7", "3", ".", "9", "8", "5", "7">> ]

\* no latitude field
PermitNoLat ==
    [ job_filing_number |-> "M00507",
      job_type |-> "NB",
      borough |-> "MANHATTAN",
      longitude |-> <<"-", "7", "3", ".", "9", "8", "5", "7">> ]

\* a second work permit of the job filing of PermitSeed, north of it
PermitTwin ==
    [ job_filing_number |-> "B00501",
      job_type |-> "PL",
      borough |-> "MANHATTAN",
      latitude |-> <<"4", "0", ".", "7", "6", "8", "4">>,
      longitude |-> <<"-", "7", "3", ".", "9", "8", "5", "7">> ]

\* the lists of permits a load delivers.  The permits of the third list are:
\* one left of the image (imageX < 0); one whose longitude is no number; one
\* whose coordinates have a numeric prefix and whose filing number is empty;
\* one right of the image (imageX > width); one with an empty latitude, a job
\* type outside ALL_JOB_TYPES and no filing number
Datasets ==
    { << >>,
      <<PermitSeed, PermitNoLat, PermitEast, PermitSouth, PermitNorth, PermitTwin>>,
      << [ job_filing_number |-> "M00504", job_type |-> "GC", borough |-> "MANHATTAN",
          latitude |-> <<"4", "0", ".", "7", "4", "8", "4">>,
          longitude |-> <<"-", "7", "4", ".", "1", "8", "5", "7">> ],
         [ job_filing_number |-> "M00508", job_type |-> "GC", borough |-> "MANHATTAN",
          latitude |-> <<"4", "0", ".", "7", "4", "8", "4">>,
          longitude |-> <<"n", "/", "a">> ],
         [ job_filing_number |-> "", job_type |-> "SG", borough |-> "BROOKLYN",
          latitude |-> <<"4", "0", ".", "7", "4", "8", "4", "N">>,
          longitude |-> <<"-", "7", "3", ".", "8", "8", "5", "7", "W">> ],
         [ job_filing_number |-> "Q00506", job_type |-> "PL", borough |-> "QUEENS",
          latitude |-> <<"4", "0", ".", "7", "4", "8", "4">>,
          longitude |-> <<"-", "7", "3", ".", "6", "8", "5", "7">> ],
         [ job_type |-> "OTH", borough |-> "BROOKLYN",
          latitude |-> <<>>,
          longitude |-> <<"-", "7", "3", ".", "9", "8", "5", "7">> ] >> }

\* the zooms the user brings the viewer to, in hundredths
UserZooms == {400, 500, 700}
\* the filter chips the user toggles
ChipJobTypes == {"GC"}

\* the forEach body from the bounds check on, with the projected pixel
\* (imageX, imageY): a sequence of no or one overlay
placeAt_widthBound(permit, idx, imageX, imageY) ==
    IF \/ RLess(imageX, RInt(0)) \/ RLess(RInt(IMAGE_DIMS.width), imageX)
       \/ RLess(imageY, RInt(0)) \/ RLess(RInt(IMAGE_DIMS.width), imageY)
    THEN << >>
    ELSE << [ permit   |-> permit,
              location |-> [ x |-> RDiv(imageX, RInt(IMAGE_DIMS.width)),
                             y |-> RDiv(imageY, RInt(IMAGE_DIMS.width)) ],
              color    |-> getJobColor(Field(permit, "job_type", "")),
              key      |-> markerKey(permit, idx) ] >>

placeAt(permit, idx, imageX, imageY) ==
    IF \/ RLess(imageX, RInt(0)) \/ RLess(RInt(IMAGE_DIMS.width), imageX)
       \/ RLess(imageY, RInt(0)) \/ RLess(RInt(IMAGE_DIMS.height), imageY)
    THEN << >>
    ELSE << [ permit   |-> permit,
              location |-> [ x |-> RDiv(imageX, RInt(IMAGE_DIMS.width)),
                             y |-> RDiv(imageY, RInt(IMAGE_DIMS.width)) ],
              color    |-> getJobColor(Field(permit, "job_type", "")),
              key      |-> markerKey(permit, idx) ] >>

\* the forEach body from the isNaN check on, with the parsed lat and lng;
\* const { x: imageX, y: imageY } = latlngToImagePx(lat, lng)
placeParsed(permit, idx, lat, lng) ==
    IF isNaN(lat) \/ isNaN(lng) THEN << >>
    ELSE Const({ placeAt(permit, idx, px.x, px.y) : px \in {latlngToImagePx(lat.v, lng.v)} })

\* the overlay one forEach iteration adds for the permit at 0-based index idx:
\* a sequence of no or one overlay
placeOne(permit, idx) ==
    Const({ placeParsed(permit, idx, lat, lng) :
                lat \in {parseFloat(Field(permit, "latitude", << >>))},
                lng \in {parseFloat(Field(permit, "longitude", << >>))} })

\* filteredPermits.forEach(..): the overlays added for fp[i..], in order
RECURSIVE placeFrom(_, _)
placeFrom(fp, i) ==
    IF i > Len(fp) THEN << >> ELSE placeOne(fp[i], i - 1) \o placeFrom(fp, i + 1)

\* overlayMarkersRef after the overlays ov were registered: a later set()
\* of a key replaces the earlier one
markerMap(ov) ==
    IF ov = << >> THEN << >>
    ELSE
    [ k \in { ov[i].key : i \in DOMAIN ov } |->
        LET last == CHOOSE i \in DOMAIN ov :
                        /\ ov[i].key = k
                        /\ \A j \in DOMAIN ov : ov[j].key = k => j <= i
        IN  ov[last].permit ]

\* viewer.clearOverlays(): every overlay is removed
clearOverlays(ov) == SelectSeq(ov, LAMBDA o : FALSE)

\* placeMarkers() removing the old markers through overlayMarkersRef, as the
\* earlier version did: viewer.removeOverlay(el) for each el the map holds
placeMarkers_removeThroughMap(viewer, on, fp, oldOverlays, oldMarkers) ==
    LET mapped(o) == o.key \in DOMAIN oldMarkers /\ oldMarkers[o.key] = o.permit
        left == SelectSeq(oldOverlays, LAMBDA o : ~mapped(o))
    IN  IF ~viewer THEN [overlays |-> oldOverlays, overlayMarkers |-> oldMarkers]
        ELSE IF ~on THEN [overlays |-> left, overlayMarkers |-> markerMap(<< >>)]
        ELSE LET ov == placeFrom(fp, 1)
             IN  [overlays |-> left \o ov, overlayMarkers |-> markerMap(ov)]

\* placeMarkers() with the viewer `viewer`, overlayOn `on` and filteredPermits `fp`:
\* the viewer's overlays and overlayMarkersRef afterwards
placeMarkers(viewer, on, fp, oldOverlays, oldMarkers) ==
    IF ~viewer THEN [overlays |-> oldOverlays, overlayMarkers |-> oldMarkers]
    ELSE IF ~on THEN [ overlays |-> clearOverlays(oldOverlays),
                       overlayMarkers |-> markerMap(<< >>) ]
    ELSE LET ov == placeFrom(fp, 1)
         IN  [ overlays |-> clearOverlays(oldOverlays) \o ov,
               overlayMarkers |-> markerMap(ov) ]

\* the effect `if (dziLoaded) placeMarkers()`, which runs after every render
\* (filteredPermits, hence placeMarkers, is a new value in every render)
markersEffect(dzi, viewer, on, ps, jts, bors) ==
    IF dzi
    THEN \E fp \in {filtered(ps, jts, bors)} :
         \E r \in {placeMarkers(viewer, on, fp, overlays, overlayMarkers)} :
            /\ overlays' = r.overlays
            /\ overlayMarkers' = r.overlayMarkers
    ELSE UNCHANGED <<overlays, overlayMarkers>>

\* flyToPermit from the conversion to viewport coordinates on, with the
\* projected pixel px: whether it throws, and the zoom and the pan target
\* requested afterwards
flyToPx_byHeight(vp, zoom, pan, px) ==
    IF ~vp THEN [thrown |-> TRUE, zoom |-> zoom, pan |-> pan]
    ELSE [ thrown |-> FALSE,
           pan    |-> [ x |-> RDiv(px.x, RInt(IMAGE_DIMS.width)),
                        y |-> RDiv(px.y, RInt(IMAGE_DIMS.height)) ],
           zoom   |-> IF zoom > FlyKeepAbove THEN zoom ELSE FlyZoom ]

flyToPx_alwaysSix(vp, zoom, pan, px) ==
    IF ~vp THEN [thrown |-> TRUE, zoom |-> zoom, pan |-> pan]
    ELSE [ thrown |-> FALSE,
           pan    |-> [ x |-> RDiv(px.x, RInt(IMAGE_DIMS.width)),
                        y |-> RDiv(px.y, RInt(IMAGE_DIMS.width)) ],
           zoom   |-> FlyZoom ]

flyToPx(vp, zoom, pan, px) ==
    \* viewer.viewport.panTo(..) on a viewer without viewport: TypeError
    IF ~vp THEN [thrown |-> TRUE, zoom |-> zoom, pan |-> pan]
    ELSE [ thrown |-> FALSE,
           pan    |-> [ x |-> RDiv(px.x, RInt(IMAGE_DIMS.width)),
                        y |-> RDiv(px.y, RInt(IMAGE_DIMS.width)) ],
           zoom   |-> IF zoom > FlyKeepAbove THEN zoom ELSE FlyZoom ]

\* flyToPermit from the isNaN check on, with the parsed lat and lng
flyToParsed_zoomFirst(vp, zoom, pan, lat, lng) ==
    IF ~vp THEN [thrown |-> TRUE, zoom |-> zoom, pan |-> pan]
    ELSE IF isNaN(lat) \/ isNaN(lng)
    THEN [ thrown |-> FALSE, pan |-> pan,
           zoom |-> IF zoom > FlyKeepAbove THEN zoom ELSE FlyZoom ]
    ELSE Const({ flyToPx(vp, zoom, pan, px) : px \in {latlngToImagePx(lat.v, lng.v)} })

flyToParsed(vp, zoom, pan, lat, lng) ==
    IF isNaN(lat) \/ isNaN(lng) THEN [thrown |-> FALSE, zoom |-> zoom, pan |-> pan]
    ELSE Const({ flyToPx(vp, zoom, pan, px) : px \in {latlngToImagePx(lat.v, lng.v)} })

\* flyToPermit(permit) on the viewer state (viewer, vp, zoom, pan): whether it
\* throws, and the zoom and the pan target requested afterwards
flyToPermit(viewer, vp, zoom, pan, permit) ==
    IF ~viewer THEN [thrown |-> FALSE, zoom |-> zoom, pan |-> pan]
    ELSE Const({ flyToParsed(vp, zoom, pan, lat, lng) :
                     lat \in {parseFloat(Field(permit, "latitude", << >>))},
                     lng \in {parseFloat(Field(permit, "longitude", << >>))} })

\* the first render: the "Initialize OpenSeadragon" effect and the fetch effect
\* run.  Whether the new viewer already has a viewport is up to the library:
\* hasVp is either.
MountViewer(hasVp) ==
    /\ ~mounted /\ effectRun = 0 /\ ~osd
    /\ mounted' = TRUE
    /\ osd' = TRUE
    /\ vpReady' = hasVp
    /\ RunEffect(daysBack)
    /\ thrown' = FALSE /\ mOp' = "mount"
    /\ markersEffect(dziLoaded, TRUE, overlayOn, << >>, jobTypes, boroughs)
    /\ UNCHANGED <<zoomT, zoomC, centerT, centerC, labelVars, daysBack, projVars, jobVars, fetchVars, tickVars,
                   dziLoaded, overlayOn, jobTypes, boroughs, drawerPermit, panTarget>>

\* the viewer's 'open' event: the image is fitted (home) and setDziLoaded(true)
OnOpen ==
    /\ osd /\ ~dziLoaded
    /\ vpReady' = TRUE
    /\ zoomT' = HomeZoom
    /\ panTarget' = NoPoint
    /\ dziLoaded' = TRUE
    /\ thrown' = FALSE /\ mOp' = "open"
    /\ markersEffect(TRUE, osd, overlayOn, permits, jobTypes, boroughs)
    /\ UNCHANGED <<zoomC, centerT, centerC, labelVars, appVars, projVars, jobVars, fetchVars, tickVars,
                   osd, overlayOn, jobTypes, boroughs, drawerPermit>>

\* the latest load() resolves with data: setPermits(data), setLoading(false).
\* (A reload started by the interval takes the place of the latest load.)
PermitsArrive(data) ==
    /\ mounted /\ loads # << >>
    /\ data # permits
    /\ permits' = setPermits(permits, data)
    /\ loading' = FALSE
    /\ loads' = [loads EXCEPT ![Len(loads)].status = "ok", ![Len(loads)].data = data]
    /\ thrown' = FALSE /\ mOp' = "setPermits"
    /\ markersEffect(dziLoaded, osd, overlayOn, data, jobTypes, boroughs)
    /\ UNCHANGED <<viewerVars, labelVars, projVars, jobVars, fetchVars, tickVars,
                   mounted, daysBack, error, timer, effectRun,
                   osd, dziLoaded, overlayOn, jobTypes, boroughs, drawerPermit, panTarget>>

\* the user zooms the viewer with the mouse; no React state changes
UserZoom(z) ==
    /\ vpReady
    /\ z # zoomT
    /\ zoomT' = z
    /\ thrown' = FALSE /\ mOp' = "zoom"
    /\ UNCHANGED <<vpReady, zoomC, centerT, centerC, labelVars, appVars, projVars, jobVars, fetchVars, tickVars,
                   osd, dziLoaded, overlayOn, jobTypes, boroughs, overlays, overlayMarkers,
                   drawerPermit, panTarget>>

\* click on the ticker row of filteredPermits[i]: setDrawerPermit(p); flyToPermit(p)
ClickRow(i) ==
    /\ i \in DOMAIN filteredPermits
    /\ \E p \in {filteredPermits[i]} :
       \E r \in {flyToPermit(osd, vpReady, zoomT, panTarget, p)} :
           /\ drawerPermit' = p
           /\ thrown' = r.thrown
           /\ zoomT' = r.zoom
           /\ panTarget' = r.pan
    /\ mOp' = "flyToPermit"
    /\ markersEffect(dziLoaded, osd, overlayOn, permits, jobTypes, boroughs)
    /\ UNCHANGED <<vpReady, zoomC, centerT, centerC, labelVars, appVars, projVars, jobVars, fetchVars, tickVars,
                   osd, dziLoaded, overlayOn, jobTypes, boroughs>>

\* the overlay button: setOverlayOn(v => !v)
ToggleOverlay ==
    /\ osd
    /\ overlayOn' = ~overlayOn
    /\ thrown' = FALSE /\ mOp' = "toggleOverlay"
    /\ markersEffect(dziLoaded, osd, ~overlayOn, permits, jobTypes, boroughs)
    /\ UNCHANGED <<viewerVars, labelVars, appVars, projVars, jobVars, fetchVars, tickVars,
                   osd, dziLoaded, jobTypes, boroughs, drawerPermit, panTarget>>

toggleJobType(jt) ==
    /\ osd
    /\ jobTypes' = IF jt \in jobTypes THEN jobTypes \ {jt} ELSE jobTypes \cup {jt}
    /\ thrown' = FALSE /\ mOp' = "toggleJobType"
    /\ markersEffect(dziLoaded, osd, overlayOn, permits, jobTypes', boroughs)
    /\ UNCHANGED <<viewerVars, labelVars, appVars, projVars, jobVars, fetchVars, tickVars,
                   osd, dziLoaded, overlayOn, boroughs, drawerPermit, panTarget>>

toggleBorough(b) ==
    /\ osd
    /\ boroughs' = IF b \in boroughs THEN boroughs \ {b} ELSE boroughs \cup {b}
    /\ thrown' = FALSE /\ mOp' = "toggleBorough"
    /\ markersEffect(dziLoaded, osd, overlayOn, permits, jobTypes, boroughs')
    /\ UNCHANGED <<viewerVars, labelVars, appVars, projVars, jobVars, fetchVars, tickVars,
                   osd, dziLoaded, overlayOn, jobTypes, drawerPermit, panTarget>>

NextMarkers ==
    \/ \E hasVp \in BOOLEAN : MountViewer(hasVp)
    \/ OnOpen
    \/ \E data \in Datasets : PermitsArrive(data)
    \/ \E z \in UserZooms : UserZoom(z)
    \/ \E i \in DOMAIN filteredPermits : ClickRow(i)
    \/ ToggleOverlay
    \/ \E jt \in ChipJobTypes : toggleJobType(jt)

SpecMarkers == Init /\ [][NextMarkers]_vars

\* ---- the filter chips

\* permits inside the image whose job-type code has no chip
PermitOther ==
    [ job_filing_number |-> "K00511",
      job_type |-> "OTH",
      borough |-> "BROOKLYN",
      latitude |-> <<"4", "0", ".", "7", "4", "8", "4">>,
      longitude |-> <<"-", "7", "3", ".", "8", "8", "5", "7">> ]

\* a permit inside the image without borough
PermitNoBorough ==
    [ job_filing_number |-> "X00515",
      job_type |-> "GC",
      latitude |-> <<"4", "0", ".", "7", "6", "8", "4">>,
      longitude |-> <<"-", "7", "3", ".", "9", "8", "5", "7">> ]

\* the lists of permits a load delivers while the chips are toggled.  The
\* permits of the second list lie inside the image: three whose job-type
\* code has no chip, one whose borough is the empty string, and PermitTwin
FilterDatasets ==
    { <<PermitSeed, PermitOther, PermitNoBorough, PermitEast>>,
      << [ job_filing_number |-> "M00512", job_type |-> "BLR", borough |-> "MANHATTAN",
          latitude |-> <<"4", "0", ".", "7", "4", "8", "4">>,
          longitude |-> <<"-", "7", "3", ".", "9", "8", "5", "7">> ],
         [ job_filing_number |-> "Q00513", job_type |-> "SPR", borough |-> "QUEENS",
          latitude |-> <<"4", "0", ".", "7", "6", "8", "4">>,
          longitude |-> <<"-", "7", "3", ".", "8", "8", "5", "7">> ],
         [ job_filing_number |-> "M00514", job_type |-> "EW", borough |-> "MANHATTAN",
          latitude |-> <<"4", "0", ".", "7", "6", "8", "4">>,
          longitude |-> <<"-", "7", "3", ".", "9", "8", "5", "7">> ],
         [ job_filing_number |-> "X00516", job_type |-> "NB", borough |-> "",
          latitude |-> <<"4", "0", ".", "7", "4", "8", "4">>,
          longitude |-> <<"-", "7", "3", ".", "8", "8", "5", "7">> ],
         PermitTwin >> }

\* the chips the user toggles
FilterChipJobTypes == {"NB", "GC", "PL"}
FilterChipBoroughs == {"MANHATTAN", "QUEENS"}

NextFilters ==
    \/ \E hasVp \in BOOLEAN : MountViewer(hasVp)
    \/ OnOpen
    \/ \E data \in FilterDatasets : PermitsArrive(data)
    \/ \E jt \in FilterChipJobTypes : toggleJobType(jt)
    \/ \E b \in FilterChipBoroughs : toggleBorough(b)

SpecFilters == Init /\ [][NextFilters]_vars

-----------------------------------------------------------------------------
(***************************************************************************)
(* Part VI : fetchPermits of permits.ts                                    *)
(*                                                                         *)
(* A Date is its time value in whole hours since the epoch (UTC); tz is    *)
(* the offset of local time in hours (local = UTC + tz), the same on every *)
(* date.  A date string and a dataset's job_type are the sequences of      *)
(* their characters.  A response is what fetch() settled with.             *)
(***************************************************************************)

\* ---- Date: the day and calendar functions of the language

\* DayFromYear(y): the day number of 1 January of year y
DayFromYear(y) ==
    365 * (y - 1970) + ((y - 1969) \div 4) - ((y - 1901) \div 100) + ((y - 1601) \div 400)

\* the number of days of year y before its month m (0 = January .. 12)
DaysBeforeMonth(y, m) ==
    LET leap == IF DayFromYear(y + 1) - DayFromYear(y) = 366 THEN 1 ELSE 0
        table == <<0, 31, 59 + leap, 90 + leap, 120 + leap, 151 + leap, 181 + leap,
                   212 + leap, 243 + leap, 273 + leap, 304 + leap, 334 + leap, 365 + leap>>
    IN  table[m + 1]

\* YearFromTime, MonthFromTime (from 0) and DateFromTime (from 1) of a day number
Civil(day) ==
    LET y == CHOOSE c \in 1970..2100 : DayFromYear(c) <= day /\ day < DayFromYear(c + 1)
        dayWithinYear == day - DayFromYear(y)
        m == CHOOSE c \in 0..11 :
                DaysBeforeMonth(y, c) <= dayWithinYear /\ dayWithinYear < DaysBeforeMonth(y, c + 1)
    IN  [year |-> y, month |-> m, date |-> dayWithinYear - DaysBeforeMonth(y, m) + 1]

\* MakeDay(year, month, date): date may lie outside the month
MakeDay(year, month, date) == DayFromYear(year) + DaysBeforeMonth(year, month) + date - 1

\* Date.prototype.getDate(): the day of the month in local time
getDate(t, tz) == Civil((t + tz) \div 24).date

\* Date.prototype.setDate(date): the local day of the month is replaced, the
\* local time of day is kept
setDate(t, tz, date) ==
    LET local == t + tz
        c == Civil(local \div 24)
    IN  MakeDay(c.year, c.month, date) * 24 + (local % 24) - tz

\* Date.prototype.toISOString(): YYYY-MM-DDTHH:mm:ss.sssZ, in UTC
toISOString(t) ==
    LET digit == <<"0", "1", "2", "3", "4", "5", "6", "7", "8", "9">>
        pad2(n) == <<digit[(n \div 10) + 1], digit[(n % 10) + 1]>>
        c == Civil(t \div 24)
    IN  pad2(c.year \div 100) \o pad2(c.year % 100) \o <<"-">> \o pad2(c.month + 1)
          \o <<"-">> \o pad2(c.date) \o <<"T">> \o pad2(t % 24)
          \o <<":", "0", "0", ":", "0", "0", ".", "0", "0", "0", "Z">>

\* ---- fetchPermits

\* cutoffStr: toISOString().split('T')[0] of the instant `daysBack` local days
\* before now
cutoffStr(now, tz, days) ==
    LET iso == toISOString(setDate(now, tz, getDate(now, tz) - days))
        firstT == CHOOSE i \in 1..Len(iso) : iso[i] = "T" /\ \A j \in 1..(i - 1) : iso[j] # "T"
    IN  SubSeq(iso, 1, firstT - 1)

NewBuilding == <<"N", "e", "w", " ", "B", "u", "i", "l", "d", "i", "n", "g">>

\* {...p, job_type: workTypeToCode(p.work_type ?? '')}
normalizeWork(p) ==
    LET code == workTypeToCode(Field(p, "work_type", << >>))
    IN  [ f \in DOMAIN p \cup {"job_type"} |-> IF f = "job_type" THEN code ELSE p[f] ]

\* the fields a normalized job filing copies: target <- source
JobFieldSources ==
    [ job_filing_number |-> "job_filing_number",
      house_no |-> "house_no",
      street_name |-> "street_name",
      borough |-> "borough",
      zip_code |-> "zip_code",
      work_type |-> "job_type",
      permit_status |-> "permit_status",
      issued_date |-> "approved_date",
      approved_date |-> "approved_date",
      owner_name |-> "owner_name",
      owner_business_name |-> "owner_business_name",
      applicant_business_name |-> "applicant_business_name",
      latitude |-> "latitude",
      longitude |-> "longitude" ]

\* a normalized job filing; a property whose value is undefined is left out
normalizeJob(p) ==
    LET copied == { f \in DOMAIN JobFieldSources : JobFieldSources[f] \in DOMAIN p }
        code == IF "job_type" \in DOMAIN p /\ p.job_type = NewBuilding THEN "NB" ELSE "DM"
    IN  [ f \in copied \cup {"job_type"} |->
            IF f = "job_type" THEN code ELSE p[JobFieldSources[f]] ]

\* the statements after both responses have arrived, returning only the
\* work permits when the job response is not ok
mergeResponses_workOnly(workRes, jobRes) ==
    LET workPermits == [i \in 1..Len(workRes.rows) |-> normalizeWork(workRes.rows[i])]
        jobPermits == [i \in 1..Len(jobRes.rows) |-> normalizeJob(jobRes.rows[i])]
    IN  IF ~workRes.ok THEN [threw |-> TRUE, error |-> "Permits API error", value |-> << >>]
        ELSE IF ~workRes.json THEN [threw |-> TRUE, error |-> "SyntaxError", value |-> << >>]
        ELSE IF ~workRes.array THEN [threw |-> TRUE, error |-> "TypeError", value |-> << >>]
        ELSE IF ~jobRes.ok \/ ~jobRes.json \/ ~jobRes.array
             THEN [threw |-> FALSE, error |-> "", value |-> workPermits]
        ELSE [threw |-> FALSE, error |-> "", value |-> workPermits \o jobPermits]

\* the statements after both responses have arrived: the ok checks, json(),
\* the two normalizations (rows.map) and the concatenation
mergeResponses(workRes, jobRes) ==
    LET workPermits == [i \in 1..Len(workRes.rows) |-> normalizeWork(workRes.rows[i])]
        jobPermits == [i \in 1..Len(jobRes.rows) |-> normalizeJob(jobRes.rows[i])]
    IN  IF ~workRes.ok THEN [threw |-> TRUE, error |-> "Permits API error", value |-> << >>]
        ELSE IF ~jobRes.ok THEN [threw |-> TRUE, error |-> "Jobs API error", value |-> << >>]
        ELSE IF ~workRes.json \/ ~jobRes.json
             THEN [threw |-> TRUE, error |-> "SyntaxError", value |-> << >>]
        ELSE IF ~workRes.array \/ ~jobRes.array
             THEN [threw |-> TRUE, error |-> "TypeError", value |-> << >>]
        ELSE [threw |-> FALSE, error |-> "", value |-> workPermits \o jobPermits]

\* fetchPermits(daysBack), called at the instant now in the time zone tz, when
\* the two requests settle with workRes and jobRes
fetchPermits(days, now, tz, workRes, jobRes) ==
    LET limit == IF days <= 1 THEN 500 ELSE IF days <= 7 THEN 2000 ELSE 5000
        \* Math.round(limit * 0.1)
        jobLimit == (2 * limit + 10) \div 20
        query == [ cutoffStr |-> cutoffStr(now, tz, days),
                   workLimit |-> limit,
                   jobLimit |-> jobLimit ]
        outcome == IF workRes.rejected \/ jobRes.rejected
                   THEN [threw |-> TRUE, error |-> "fetch rejected", value |-> << >>]
                   ELSE mergeResponses(workRes, jobRes)
    IN  [ valid |-> TRUE, query |-> query, threw |-> outcome.threw,
          error |-> outcome.error, value |-> outcome.value ]

\* ---- the calls that are checked

\* what a request settled with: rejected, or a response with its ok flag and
\* status, whose body is JSON or not (json), an array or not (array), of rows
Response(rejected, ok, status, json, array, rows) ==
    [ rejected |-> rejected, ok |-> ok, status |-> status,
      json |-> json, array |-> array, rows |-> rows ]

\* the work rows are: a plumbing permit, a row without work_type, and a row
\* that carries a job_type of its own
WorkResponses ==
    { Response(TRUE, FALSE, 0, FALSE, FALSE, << >>),
      Response(FALSE, FALSE, 500, FALSE, FALSE, << >>),
      Response(FALSE, TRUE, 200, TRUE, FALSE, << >>),
      Response(FALSE, FALSE, 429, TRUE, TRUE,
               << [job_filing_number |-> "B001", work_type |-> <<"P", "l", "u", "m", "b", "i", "n", "g">>, borough |-> "BROOKLYN"] >>),
      Response(FALSE, TRUE, 200, TRUE, TRUE, << >>),
      Response(FALSE, TRUE, 200, TRUE, TRUE,
               << [job_filing_number |-> "B001", work_type |-> <<"P", "l", "u", "m", "b", "i", "n", "g">>, borough |-> "BROOKLYN"],
                  [job_filing_number |-> "X002", borough |-> "BRONX"] >>),
      Response(FALSE, TRUE, 200, TRUE, TRUE,
               << [job_filing_number |-> "M003", work_type |-> <<"S", "i", "d", "e", "w", "a", "l", "k", " ", "S", "h", "e", "d">>, job_type |-> "Alteration"] >>) }

\* the job rows are: a New Building filing (bin is a column the normalization
\* does not copy), a Full Demolition filing, and a filing without job_type
JobResponses ==
    { Response(TRUE, FALSE, 0, FALSE, FALSE, << >>),
      Response(FALSE, FALSE, 503, TRUE, FALSE, << >>),
      Response(FALSE, TRUE, 200, FALSE, FALSE, << >>),
      Response(FALSE, FALSE, 400, TRUE, TRUE,
               << [job_filing_number |-> "J101", job_type |-> NewBuilding,
                   approved_date |-> "2026-11-01", borough |-> "QUEENS", bin |-> "4000001"] >>),
      Response(FALSE, TRUE, 200, TRUE, TRUE, << >>),
      Response(FALSE, TRUE, 200, TRUE, TRUE,
               << [job_filing_number |-> "J101", job_type |-> NewBuilding,
                   approved_date |-> "2026-11-01", borough |-> "QUEENS", bin |-> "4000001"],
                  [job_filing_number |-> "J102", job_type |-> <<"F", "u", "l", "l", " ", "D", "e", "m", "o", "l", "i", "t", "i", "o", "n">>,
                   approved_date |-> "2026-11-02"] >>),
      Response(FALSE, TRUE, 200, TRUE, TRUE,
               << [job_filing_number |-> "J103", borough |-> "MANHATTAN"] >>) }

\* the instants of the calls, as [y, m, d, h] in UTC (m from 1): mid-month, the
\* first of March of a leap year and of a common year, new year's day, and
\* an evening whose local date in New York is the day before
Instants ==
    { <<2026, 11, 16, 15>>, <<2024, 3, 1, 12>>, <<2026, 3, 1, 12>>,
      <<2026, 1, 1, 9>>, <<2026, 7, 5, 2>> }

\* the time value of an instant
TimeOf(i) == MakeDay(i[1], i[2] - 1, i[3]) * 24 + i[4]

\* the time zones of the browser: New York (standard time), UTC, Tokyo
TimeZones == {-5, 0, 9}

\* one call of fetchPermits
Fetch(days, now, tz, workRes, jobRes) ==
    /\ ~fIn.valid
    /\ fIn' = [ valid |-> TRUE, days |-> days, now |-> now, tz |-> tz,
                workRes |-> workRes, jobRes |-> jobRes ]
    /\ fOut' = fetchPermits(days, now, tz, workRes, jobRes)
    /\ UNCHANGED <<viewerVars, labelVars, appVars, projVars, jobVars, markVars, tickVars>>

NextFetch ==
    \E days \in DaysBackChoices, i \in Instants, tz \in TimeZones,
       workRes \in WorkResponses, jobRes \in JobResponses :
          Fetch(days, TimeOf(i), tz, workRes, jobRes)

SpecFetch == Init /\ [][NextFetch]_vars

-----------------------------------------------------------------------------
(***************************************************************************)
(* Part VII : the ticker of App (src/src/App.tsx)                          *)
(*                                                                         *)
(* sortedPermits is filteredPermits in another order; the ticker uses the  *)
(* length of it only.                                                      *)
(***************************************************************************)

\* sortedPermits.length
sortedLength == Len(filteredPermits)

\* the updater of setTickerIndex: (i + 1) % sortedPermits.length
nextIndex(i, length) == (i + 1) % length

\* the interval of the ticker effect fires (every 2200 ms); the effect has
\* set one while tickerOpen and the list is not empty.  Nothing happens while
\* the list is hovered, else the index steps and the new row flashes
TickerTick ==
    /\ mounted /\ tickerOpen /\ sortedLength # 0
    /\ IF tickerPaused
       THEN UNCHANGED <<tickerIndex, tickerFlash, overlays, overlayMarkers>>
       ELSE /\ \E next \in {nextIndex(tickerIndex, sortedLength)} :
                 /\ tickerIndex' = next
                 /\ tickerFlash' = next
            /\ markersEffect(dziLoaded, osd, overlayOn, permits, jobTypes, boroughs)
    /\ tOp' = "tick"
    /\ UNCHANGED <<viewerVars, labelVars, appVars, projVars, jobVars, fetchVars,
                   osd, dziLoaded, overlayOn, jobTypes, boroughs, drawerPermit, panTarget,
                   thrown, mOp, tickerOpen, tickerPaused>>

\* the timeout set by a tick (600 ms): setTickerFlash(null)
FlashTimeout ==
    /\ mounted /\ tickerFlash # -1
    /\ tickerFlash' = -1
    /\ tOp' = "flashTimeout"
    /\ markersEffect(dziLoaded, osd, overlayOn, permits, jobTypes, boroughs)
    /\ UNCHANGED <<viewerVars, labelVars, appVars, projVars, jobVars, fetchVars,
                   osd, dziLoaded, overlayOn, jobTypes, boroughs, drawerPermit, panTarget,
                   thrown, mOp, tickerOpen, tickerIndex, tickerPaused>>

\* onMouseEnter / onMouseLeave of the ticker list: only the ref changes
MouseEnter ==
    /\ mounted /\ tickerOpen /\ ~tickerPaused
    /\ tickerPaused' = TRUE
    /\ tOp' = "mouseEnter"
    /\ UNCHANGED <<viewerVars, labelVars, appVars, projVars, jobVars, markVars, fetchVars,
                   tickerOpen, tickerIndex, tickerFlash>>

MouseLeave ==
    /\ mounted /\ tickerOpen /\ tickerPaused
    /\ tickerPaused' = FALSE
    /\ tOp' = "mouseLeave"
    /\ UNCHANGED <<viewerVars, labelVars, appVars, projVars, jobVars, markVars, fetchVars,
                   tickerOpen, tickerIndex, tickerFlash>>

\* the LIVE TICKER button: setTickerOpen(v => !v)
ToggleTicker ==
    /\ mounted
    /\ tickerOpen' = ~tickerOpen
    /\ tOp' = "toggleTicker"
    /\ markersEffect(dziLoaded, osd, overlayOn, permits, jobTypes, boroughs)
    /\ UNCHANGED <<viewerVars, labelVars, appVars, projVars, jobVars, fetchVars,
                   osd, dziLoaded, overlayOn, jobTypes, boroughs, drawerPermit, panTarget,
                   thrown, mOp, tickerIndex, tickerFlash, tickerPaused>>

NextTicker ==
    \/ \E hasVp \in BOOLEAN : MountViewer(hasVp)
    \/ \E data \in Datasets : PermitsArrive(data)
    \/ \E jt \in ChipJobTypes : toggleJobType(jt)
    \/ TickerTick
    \/ FlashTimeout
    \/ MouseEnter
    \/ MouseLeave
    \/ ToggleTicker

SpecTicker == Init /\ [][NextTicker]_vars

-----------------------------------------------------------------------------
(* Properties of NeighborhoodLabels *)

\* the labels whose visibility flag is on
Visible == { l \in DOMAIN labels : labels[l].display # "none" }

\* the label ids of each LabelEntry tier
Coarse == { l \in LabelIds : LabelSrc[l].tier = "borough" }
Mid    == { l \in LabelIds : LabelSrc[l].tier = "major" }
Fine   == { l \in LabelIds : LabelSrc[l].tier = "nta" }

\* the union of label sets the design assigns to a tier
TierUnion(t) ==
    CASE t = 0 -> Coarse
      [] t = 1 -> Coarse \cup Mid
      [] t = 2 -> Coarse \cup Mid \cup Fine
      [] OTHER -> {}

\* the tier the design assigns to a zoom (thresholds 1.5 and 4.0, lower bound inclusive)
ExpectedTier(z) ==
    CASE z < 150 -> 0
      [] z >= 150 /\ z < 400 -> 1
      [] z >= 400 -> 2

\* the zoom the controller sees: the viewport's zoom, or 1 without a viewport
SeenZoom == IF vpReady THEN zoomT ELSE 100

\* the screen position the viewer's current transform gives label l
CurrentPx(l) == pixelFromPoint(labels[l].vpX, labels[l].vpY, zoomC, centerC)

\* every visible label sits where the current transform puts it
Synced == \A l \in Visible : labels[l].px = CurrentPx(l)

\* C1: whenever the controller is enabled (handlers are atomic, so none is
\* running in a state), the visible labels are exactly the union of
\* currentTier: Coarse at 0, Coarse and Mid at 1, all labels at 2.
C1_VisibleIsTierUnion ==
    (constructed /\ enabled) =>
        /\ currentTier \in {0, 1, 2}
        /\ Visible = TierUnion(currentTier)

C1_Witness ==
    /\ constructed /\ enabled /\ vpReady
    /\ currentTier = 1
    /\ Visible = {"MANHATTAN", "MN2501"}
    /\ lastOp = "zoom" /\ prevTier = 2

C3_SameTierZoomNoOp ==
    [][ (lastOp' = "zoom" /\ ExpectedTier(zoomRead') = currentTier)
          => /\ currentTier' = currentTier
             /\ \A l \in LabelIds : labels'[l].display = labels[l].display ]_vars

C3_Witness ==
    /\ lastOp = "zoom" /\ vpReady /\ enabled
    /\ zoomRead = 399 /\ prevTier = 1 /\ currentTier = 1
    /\ Visible = {"MANHATTAN", "MN2501"}

\* C4 as claimed: while enabled with a viewport, after every pan event, zoom
\* event or update-viewport frame every visible label is at the position the
\* current transform gives it.
C4_SyncedAfterEveryEvent ==
    (constructed /\ enabled /\ vpReady /\ lastOp \in {"pan", "zoom", "update-viewport"})
        => Synced

\* C4 amended: while enabled with a viewport, every visible label is at the
\* position the current transform gives it after every pan event, every
\* update-viewport frame and every zoom event that changed the tier.
\* A zoom event that does not change the tier repositions nothing.
C4_SyncedAfterDraw ==
    /\ []( ( /\ constructed /\ enabled /\ vpReady
             /\ \/ lastOp \in {"pan", "update-viewport"}
                \/ (lastOp = "zoom" /\ prevTier # currentTier) )
           => Synced )
    /\ [][ (lastOp' = "zoom" /\ currentTier' = currentTier)
            => \A l \in LabelIds : labels'[l].px = labels[l].px ]_vars

C4_Witness ==
    /\ constructed /\ enabled /\ vpReady
    /\ lastOp = "zoom" /\ prevTier = 0 /\ currentTier = 2
    /\ zoomC = 400 /\ centerC = <<61952, 50432>>
    /\ Visible = LabelIds
    /\ \A l \in LabelIds : labels[l].px # NoPx

\* C5 as claimed: while the controller is disabled, no zoom, pan or
\* update-viewport event changes a visibility flag, a screen position or
\* currentTier.
C5_NoWorkWhileDisabled ==
    [][ (constructed /\ ~enabled /\ lastOp' \in {"zoom", "pan", "update-viewport"})
          => /\ currentTier' = currentTier
             /\ \A l \in LabelIds : /\ labels'[l].display = labels[l].display
                                     /\ labels'[l].px = labels[l].px ]_vars

\* C6: when setEnabled(true) returns, currentTier is the tier of the viewer's
\* zoom, the visible labels are that tier's union and every visible label is
\* where a freshly constructed controller would have put it: at the current
\* transform's position, or nowhere yet while the viewer has no viewport.
C6_ReenableIsFresh ==
    (lastOp = "setEnabled" /\ enabled) =>
        /\ currentTier = ExpectedTier(SeenZoom)
        /\ Visible = TierUnion(ExpectedTier(SeenZoom))
        /\ \A l \in Visible :
              labels[l].px = IF vpReady THEN CurrentPx(l) ELSE NoPx

C6_Witness ==
    /\ lastOp = "setEnabled" /\ enabled /\ vpReady
    /\ prevTier = 1 /\ currentTier = 1
    /\ zoomC = 399 /\ centerC = <<61952, 50432>>
    /\ Synced /\ Visible = {"MANHATTAN", "MN2501"}

\* C7 as claimed: while the viewer has no viewport every controller operation,
\* the constructor's tier update included, changes neither currentTier nor any
\* visibility flag or position.
C7_NoViewportNoOp ==
    [][ (~vpReady' /\ lastOp' \in {"construct", "zoom", "pan", "update-viewport", "setEnabled"})
          => /\ currentTier' = currentTier
             /\ \A l \in LabelIds : /\ labels'[l].display = labels[l].display
                                     /\ labels'[l].px = labels[l].px ]_vars

\* C7 amended: while the viewer has no viewport no operation positions a label;
\* zoom, pan and update-viewport events and setEnabled leave currentTier and
\* the visibility flags as they were; the constructor's tier update assumes
\* zoom 1, so it sets currentTier to 0 and shows the borough labels.
C7_NoViewportDefaultsToTier0 ==
    [][ (~vpReady' /\ lastOp' \in {"construct", "zoom", "pan", "update-viewport", "setEnabled"})
          => /\ \A l \in LabelIds : labels'[l].px = NoPx
             /\ IF lastOp' = "construct"
                THEN currentTier' = 0 /\ Visible' = Coarse
                ELSE /\ currentTier' = currentTier
                     /\ \A l \in LabelIds : labels'[l].display = labels[l].display ]_vars

C7_Witness ==
    /\ ~vpReady /\ constructed
    /\ lastOp = "setEnabled" /\ enabled
    /\ currentTier = 0 /\ Visible = {"MANHATTAN"}
    /\ \A l \in LabelIds : labels[l].px = NoPx

\* C8: after buildLabels no operation adds, removes or replaces a label or
\* changes its cached viewport point or its tier.
C8_LabelsBuiltOnce ==
    /\ DOMAIN labels = LabelIds
    /\ \A l \in LabelIds :
          /\ labels[l].tier = LabelSrc[l].tier
          /\ labels[l].vpX = [n |-> LabelSrc[l].x, d |-> 123904]
          /\ labels[l].vpY = [n |-> LabelSrc[l].y, d |-> 123904]

C8_Witness ==
    /\ constructed /\ enabled /\ vpReady
    /\ lastOp = "update-viewport" /\ currentTier = 2
    /\ zoomC = 400
    /\ \A l \in LabelIds : labels[l].px # NoPx /\ labels[l].display = ""


-----------------------------------------------------------------------------
(* Properties of the data refresh *)

\* load a has just delivered its result in this step
Delivers(a) ==
    /\ a \in 1..Len(loads)
    /\ loads[a].status = "flight"
    /\ loads'[a].status = "ok"

C10_ListIsOneRefresh ==
    /\ \/ permits = << >>
       \/ \E i \in 1..Len(loads) : loads[i].status = "ok" /\ permits = loads[i].data
    /\ \A j, k \in 1..Len(permits) : permits[j].src = permits[k].src

C10_Witness ==
    /\ Len(permits) = 2
    /\ permits[1].src = 2
    /\ \E i \in 1..Len(loads) : i # 2 /\ loads[i].status = "ok" /\ Len(loads[i].data) > 0

\* the load() invocations whose fetch has not settled
InFlight == { i \in 1..Len(loads) : loads[i].status = "flight" }

\* C23 (as stated): at most one refresh is in flight at any time; a refresh
\* triggered by the timer or by a change of daysBack while an earlier one has
\* not completed is not started in parallel.
C23_OneRefreshInFlight == Cardinality(InFlight) <= 1

\* this step starts a load()
StartsLoad == Len(loads') = Len(loads) + 1

\* C24: at most one refresh interval is live at any time; after teardown no
\* refresh is started any more; and a refresh started by an interval belongs
\* to the latest effect run and fetches for the current daysBack.
C24_OneTimer ==
    /\ [](Cardinality(timer) <= 1)
    /\ [][ StartsLoad =>
              LET l == loads'[Len(loads')]
              IN  /\ ~(~mounted /\ effectRun > 0)
                  /\ l.by = "timer" => (l.run = effectRun /\ l.days = daysBack) ]_vars

\* after a change of daysBack the interval of the second effect run has fired,
\* and the only live interval is that one
C24_Witness ==
    /\ mounted /\ effectRun = 2
    /\ timer = {[run |-> 2, days |-> daysBack]}
    /\ Len(loads) = 3
    /\ loads[3].by = "timer" /\ loads[3].run = 2 /\ loads[3].days = daysBack

\* the fetch of load a has just thrown in this step
Fails(a) ==
    /\ a \in 1..Len(loads)
    /\ loads[a].status = "flight"
    /\ loads'[a].status = "failed"

\* C25: a failed refresh sets the error state, leaves the permit list exactly
\* as it was and clears loading; the error state is cleared when the next
\* refresh starts.
C25_FailureKeepsList ==
    /\ [][ \A a \in 1..MaxLoads :
              (mounted /\ Fails(a)) => (error' /\ permits' = permits /\ ~loading') ]_vars
    /\ [][ StartsLoad => ~error' ]_vars

\* a refresh failed after an earlier one had delivered two permits: the list
\* is still there, the error is set
C25_Witness ==
    /\ mounted /\ error /\ ~loading
    /\ Len(permits) = 2
    /\ \E i \in 1..Len(loads) : loads[i].status = "failed" /\ permits[1].src < i

\* C27 (as stated): whenever no refresh is in flight and the refresh that
\* completed last succeeded, the permit list is the result of a fetch issued
\* for the currently selected daysBack.  (Stated of the step in which the
\* last refresh in flight delivers.)
C27_ListMatchesDaysBack ==
    [][ \A a \in 1..MaxLoads :
          (mounted /\ Delivers(a) /\ InFlight' = {})
             => \E b \in 1..Len(loads') :
                   /\ loads'[b].status = "ok"
                   /\ loads'[b].days = daysBack
                   /\ permits' = loads'[b].data ]_vars

\* C28 (as stated): loading is true in every state in which a refresh started
\* by load() has not yet completed.
C28_LoadingWhileInFlight ==
    (mounted /\ InFlight # {}) => loading

-----------------------------------------------------------------------------
(* Properties of the projection *)

\* the evaluated point is the seed point
AtSeed == pIn.valid /\ pIn.lat = MAP_CONFIG.seed.lat /\ pIn.lng = MAP_CONFIG.seed.lng

\* C16: projecting the seed point gives exactly the seed pixel (45059, 43479).
C16_SeedProjectsToSeedPixel ==
    AtSeed => pOut.px = [x |-> [n |-> 45059, d |-> 1], y |-> [n |-> 43479, d |-> 1]]

C16_Witness ==
    AtSeed /\ pOut.valid /\ pOut.px.x.n = 45059 /\ pOut.qMap.qx.n = 0

\* C17 as claimed: the X offset does not depend on the view height or the
\* reference pixel height, so a configuration that differs from MAP_CONFIG in
\* those only gives every point the same X quadrant offset.
C17_XIndependentOfHeight ==
    pIn.valid => pOut.q.qx = pOut.qMap.qx

\* the metres one quadrant unit stands for under cfg: the quadrant step in
\* pixels times the single metres-per-pixel constant
MetersPerQuadrant(cfg) ==
    RMul(RMul(cfg.width_px, cfg.tile_step), RDiv(cfg.view_height_meters, cfg.height_px))

\* C17 amended: one metres-per-pixel constant, view_height_meters / height_px,
\* converts both axes: under a configuration with another view height or
\* reference pixel height the X and the Y quadrant offsets of every point are
\* rescaled by the same factor (the offsets in metres are unchanged).
C17_OneScaleBothAxes ==
    pIn.valid =>
        /\ RMul(pOut.q.qx, MetersPerQuadrant(pIn.cfg))
             = RMul(pOut.qMap.qx, MetersPerQuadrant(MAP_CONFIG))
        /\ RMul(pOut.q.qy, MetersPerQuadrant(pIn.cfg))
             = RMul(pOut.qMap.qy, MetersPerQuadrant(MAP_CONFIG))

C17_Witness ==
    /\ pIn.valid /\ pIn.cfg.height_px = RInt(2048)
    /\ pOut.qMap.qx.n # 0
    /\ pOut.q.qx = RMul(RInt(2), pOut.qMap.qx)
    /\ pOut.q.qy = RMul(RInt(2), pOut.qMap.qy)

\* C18: the pixel offset from SEED_PX of seed + k (dLat, dLng) is k times the
\* pixel offset of seed + (dLat, dLng), on both axes, for k in {1/2, 1, 2}.
C18_LinearInDisplacement ==
    pIn.valid =>
        /\ RSub(pOut.pxK.x, SEED_PX.x) = RMul(pIn.k, RSub(pOut.px.x, SEED_PX.x))
        /\ RSub(pOut.pxK.y, SEED_PX.y) = RMul(pIn.k, RSub(pOut.px.y, SEED_PX.y))

C18_Witness ==
    /\ pIn.valid /\ pIn.k = Rat(1, 2)
    /\ pOut.px.x # SEED_PX.x /\ pOut.px.y # SEED_PX.y
    /\ pOut.pxK # pOut.px

-----------------------------------------------------------------------------
(* Properties of the work-type tables *)

\* the job-type strings that are keys of the work-type tables
TableKeys == DOMAIN WORK_TYPE_COLORS

\* the work type includes none of the keywords of workTypeToCode
MatchesNoKeyword(workType) ==
    \A i \in DOMAIN Keywords : ~includes(toLowerCase(workType), Keywords[i].kw)

\* C19 (as stated): for every job-type string that is not a key of the tables,
\* getJobColor, getJobEmoji and getJobLabel return the colour, emoji and label
\* of the OTH entry, and workTypeToCode returns 'OTH' for every work type that
\* matches no keyword.
C19_UnknownMapsToOther ==
    jIn.valid =>
        /\ jIn.jobType \notin TableKeys =>
              /\ jOut.color = WORK_TYPE_COLORS["OTH"]
              /\ jOut.emoji = WORK_TYPE_EMOJIS["OTH"]
              /\ jOut.label = WORK_TYPE_LABELS["OTH"]
        /\ MatchesNoKeyword(jIn.workType) => jOut.code = "OTH"

\* C19 (amended): for a job-type string that is neither a key of the tables nor
\* a property name of Object.prototype, getJobColor and getJobEmoji return the
\* colour and emoji of the OTH entry and getJobLabel returns the string itself;
\* for a property name of Object.prototype all three return the inherited
\* property; workTypeToCode returns 'OTH' exactly for the work types that
\* match no keyword.
C19_UnknownFallsBack ==
    jIn.valid =>
        /\ (jIn.jobType \notin TableKeys /\ jIn.jobType \notin ObjectPrototypeKeys) =>
              /\ jOut.color = WORK_TYPE_COLORS["OTH"]
              /\ jOut.emoji = WORK_TYPE_EMOJIS["OTH"]
              /\ jOut.label = jIn.jobType
        /\ (jIn.jobType \notin TableKeys /\ jIn.jobType \in ObjectPrototypeKeys) =>
              /\ jOut.color = Inherited
              /\ jOut.emoji = Inherited
              /\ jOut.label = Inherited
        /\ MatchesNoKeyword(jIn.workType) <=> jOut.code = "OTH"

\* an unknown code and a work type with no keyword have been looked up
C19_Witness ==
    /\ jIn.valid /\ jIn.jobType = "XYZ" /\ jIn.workType = <<"E", "l", "e", "v", "a", "t", "o", "r">>
    /\ jOut.color = "#666666" /\ jOut.emoji = "U+1F4CC" /\ jOut.label = "XYZ"
    /\ jOut.code = "OTH"

-----------------------------------------------------------------------------
(* Properties of the markers and of fly-to *)

\* both coordinates of the permit parse to a number
Parsable(p) ==
    /\ ~isNaN(parseFloat(Field(p, "latitude", << >>)))
    /\ ~isNaN(parseFloat(Field(p, "longitude", << >>)))

\* the image pixel the permit projects to
ImagePxOf(p) ==
    latlngToImagePx(parseFloat(Field(p, "latitude", << >>)).v,
                    parseFloat(Field(p, "longitude", << >>)).v)

\* the viewport point of an image pixel: both axes over the image width
OverWidth(px) ==
    [ x |-> RDiv(px.x, RInt(IMAGE_DIMS.width)), y |-> RDiv(px.y, RInt(IMAGE_DIMS.width)) ]

\* the last operation was flyToPermit on a permit with parsable coordinates,
\* on a viewer with a viewport
FlownTo(p) == mOp = "flyToPermit" /\ drawerPermit = p /\ Parsable(p) /\ vpReady

\* C11: every conversion of an image pixel to a viewport point divides x and
\* y by the image width: the location of every marker, the pan target of
\* flyToPermit and the anchor of every neighborhood label; so the marker of a
\* permit and the fly-to target of that permit are the same viewport point.
C11_BothAxesOverWidth ==
    /\ \A i \in DOMAIN overlays :
          overlays[i].location = OverWidth(ImagePxOf(overlays[i].permit))
    /\ \A p \in Range(permits) : FlownTo(p) => panTarget = OverWidth(ImagePxOf(p))
    /\ \A i \in DOMAIN overlays : FlownTo(overlays[i].permit) => overlays[i].location = panTarget
    /\ \A l \in LabelIds :
          /\ labels[l].vpX = [n |-> LabelSrc[l].x, d |-> IMAGE_DIMS.width]
          /\ labels[l].vpY = [n |-> LabelSrc[l].y, d |-> IMAGE_DIMS.width]

\* the viewer flew to the permit east of the seed, whose marker is placed; its
\* y over the image height would be another point
C11_Witness ==
    /\ FlownTo(PermitEast)
    /\ \E i \in DOMAIN overlays :
          /\ overlays[i].permit = PermitEast
          /\ overlays[i].location = panTarget
          /\ overlays[i].location.y # RDiv(ImagePxOf(PermitEast).y, RInt(IMAGE_DIMS.height))

\* the pixel lies in [0, imageWidth] x [0, imageHeight], bounds included
InImage(px) ==
    /\ ~RLess(px.x, RInt(0)) /\ ~RLess(RInt(IMAGE_DIMS.width), px.x)
    /\ ~RLess(px.y, RInt(0)) /\ ~RLess(RInt(IMAGE_DIMS.height), px.y)

\* the permit has parsable coordinates that project into the image
ShouldHaveMarker(p) == Parsable(p) /\ InImage(ImagePxOf(p))

\* the permits of the markers, in the order the markers were added
MarkedPermits == [ i \in DOMAIN overlays |-> overlays[i].permit ]

\* C12: once placeMarkers has run with the overlay on, the markers are exactly
\* the filtered permits whose projected pixel lies in
\* [0, imageWidth] x [0, imageHeight], in the order of the list; a permit
\* projecting outside is left out, no error is raised, and the others are
\* placed as they would be without it.
C12_MarkerIffInsideImage ==
    (dziLoaded /\ overlayOn) =>
        /\ MarkedPermits = SelectSeq(filteredPermits, ShouldHaveMarker)
        /\ \A p \in Range(filteredPermits) :
              Parsable(p) => ((p \in Range(MarkedPermits)) <=> InImage(ImagePxOf(p)))
        /\ mOp # "flyToPermit" => ~thrown

\* markers are placed for a list with a permit below and a permit above the
\* image: the two permits inside the image have markers, the others have none
C12_Witness ==
    /\ dziLoaded /\ overlayOn
    /\ mOp \in {"open", "setPermits"}
    /\ PermitSouth \in Range(filteredPermits) /\ PermitNorth \in Range(filteredPermits)
    /\ ~InImage(ImagePxOf(PermitSouth))
    /\ ~RLess(RInt(IMAGE_DIMS.width), ImagePxOf(PermitSouth).y)
    /\ MarkedPermits = <<PermitSeed, PermitEast, PermitTwin>>

\* C13: a permit whose latitude or longitude is missing or is no number is
\* never projected: it has no marker, and flyToPermit on it leaves the zoom
\* and the pan target of the viewer as they were; neither raises an exception
\* nor sets the error state.
C13_UnparsableNeverProjected ==
    /\ []( /\ \A i \in DOMAIN overlays : Parsable(overlays[i].permit)
           /\ (mOp # "flyToPermit" \/ ~Parsable(drawerPermit)) => ~thrown
           /\ ~error )
    /\ [][ (mOp' = "flyToPermit" /\ ~Parsable(drawerPermit'))
            => (zoomT' = zoomT /\ panTarget' = panTarget /\ ~thrown' /\ error' = error) ]_vars

\* the row of the permit without latitude was clicked on an opened viewer whose
\* markers are placed: the viewer is still at home, the permit has no marker
C13_Witness ==
    /\ dziLoaded /\ overlayOn /\ vpReady
    /\ mOp = "flyToPermit" /\ drawerPermit = PermitNoLat
    /\ PermitNoLat \in Range(filteredPermits)
    /\ PermitNoLat \notin Range(MarkedPermits) /\ MarkedPermits # << >>
    /\ zoomT = HomeZoom /\ panTarget = NoPoint /\ ~thrown

\* C14: flyToPermit never zooms out: the zoom it leaves requested is at least
\* the zoom the viewer had before the call.
C14_FlyNeverZoomsOut ==
    [][ mOp' = "flyToPermit" => zoomT' >= zoomT ]_vars

\* the viewer flew to the seed permit from a zoom above the fly-to zoom and
\* kept that zoom
C14_Witness ==
    /\ FlownTo(PermitSeed) /\ ~thrown
    /\ panTarget = OverWidth(ImagePxOf(PermitSeed))
    /\ zoomT = 700 /\ zoomT > FlyZoom

\* C15 (as stated): after flyToPermit on a permit with parsable coordinates the
\* requested zoom is at least the fly-to zoom 6, whatever the zoom was before.
C15_FlyReachesMinZoom ==
    \A p \in Range(permits) : FlownTo(p) => zoomT >= FlyZoom

\* C20 (as stated): before the 'open' event no marker is placed, and
\* flyToPermit on a viewer that has no viewport yet raises no exception and
\* changes neither the zoom nor the pan target.
C20_NotReadyIsNoOp ==
    /\ ~dziLoaded => overlays = << >>
    /\ (osd /\ ~vpReady /\ mOp = "flyToPermit")
          => (~thrown /\ zoomT = HomeZoom /\ panTarget = NoPoint)

\* C26: once the image is open, the viewer's overlays are exactly the
\* markers the latest run of placeMarkers created for the current filtered
\* permits, and none at all while the overlay is switched off; no marker of
\* an earlier run remains, also when permits share a filing number.
C26_OnlyCurrentMarkers ==
    (osd /\ dziLoaded) =>
        /\ overlays = IF overlayOn THEN placeFrom(filteredPermits, 1) ELSE << >>
        /\ \A i \in DOMAIN overlays : overlays[i].permit \in Range(filteredPermits)

\* markers were placed for three permits, two of them under one key; after
\* the GC chip was switched off the run placed the two that share the key
C26_Witness ==
    /\ dziLoaded /\ overlayOn /\ mOp = "toggleJobType"
    /\ MarkedPermits = <<PermitSeed, PermitTwin>>
    /\ overlays[1].key = overlays[2].key
    /\ DOMAIN overlayMarkers = {overlays[1].key}

\* the job-type code of permit p has no chip
CodeOutsideChips(p) ==
    "job_type" \in DOMAIN p /\ toUpperCase(p.job_type) \notin Range(ALL_JOB_TYPES)

\* permit p has no borough
NoBorough(p) == "borough" \notin DOMAIN p \/ p.borough = ""

\* C29: in every filter state reached by toggleJobType and toggleBorough,
\* filters.jobTypes is a subset of ALL_JOB_TYPES and never holds 'OTHER'; so a
\* permit whose job-type code is outside ALL_JOB_TYPES and a permit with no
\* borough are not in filteredPermits and have no marker.
C29_UnlistedTypesExcluded ==
    /\ jobTypes \subseteq Range(ALL_JOB_TYPES)
    /\ "OTHER" \notin jobTypes
    /\ \A p \in Range(permits) :
          (CodeOutsideChips(p) \/ NoBorough(p))
             => (p \notin Range(filteredPermits) /\ p \notin Range(MarkedPermits))

\* after chips were toggled off and on again (all of them are on), with the
\* image open: the list holds permits coded OTH and without borough, and the
\* only markers are those of the two other permits
C29_Witness ==
    /\ dziLoaded /\ overlayOn /\ mOp = "toggleBorough"
    /\ jobTypes = Range(ALL_JOB_TYPES) /\ boroughs = Range(ALL_BOROUGHS)
    /\ PermitOther \in Range(permits) /\ PermitNoBorough \in Range(permits)
    /\ MarkedPermits = <<PermitSeed, PermitEast>>

-----------------------------------------------------------------------------
(* Properties of fetchPermits *)

\* both requests settled with an ok response whose body is an array of rows
BothOk ==
    /\ ~fIn.workRes.rejected /\ ~fIn.jobRes.rejected
    /\ fIn.workRes.ok /\ fIn.jobRes.ok
    /\ fIn.workRes.json /\ fIn.jobRes.json
    /\ fIn.workRes.array /\ fIn.jobRes.array

\* permit q is row p with a job_type code from the tables added
IsWorkPermitOf(q, p) ==
    /\ DOMAIN q = DOMAIN p \cup {"job_type"}
    /\ \A f \in DOMAIN p \ {"job_type"} : q[f] = p[f]
    /\ q.job_type \in TableKeys

\* permit q is filing p normalized: coded NB or DM, the filing's number kept,
\* its job_type moved to work_type
IsJobPermitOf(q, p) ==
    /\ q.job_type \in {"NB", "DM"}
    /\ q.job_type = "NB" <=> ("job_type" \in DOMAIN p /\ p.job_type = NewBuilding)
    /\ q.job_filing_number = p.job_filing_number
    /\ "work_type" \in DOMAIN q <=> "job_type" \in DOMAIN p
    /\ "work_type" \in DOMAIN q => q.work_type = p.job_type

\* C21: fetchPermits merges the two sources all-or-nothing: either it returns
\* the normalized work permits followed by the normalized job filings, every
\* permit carrying a job_type code (NB or DM for a filing), or it fails; it
\* fails whenever one of the two responses is not ok, and it never returns
\* the permits of one source only.
C21_MergeAllOrNothing ==
    fOut.valid =>
        LET w == fIn.workRes.rows
            j == fIn.jobRes.rows
        IN  IF BothOk
            THEN /\ ~fOut.threw
                 /\ Len(fOut.value) = Len(w) + Len(j)
                 /\ \A i \in 1..Len(w) : IsWorkPermitOf(fOut.value[i], w[i])
                 /\ \A k \in 1..Len(j) : IsJobPermitOf(fOut.value[Len(w) + k], j[k])
            ELSE fOut.threw /\ fOut.value = << >>

\* two work permits followed by two job filings were returned
C21_Witness ==
    /\ fOut.valid /\ ~fOut.threw
    /\ Len(fOut.value) = 4
    /\ fOut.value[1].job_type = "PL" /\ fOut.value[2].job_type = "OTH"
    /\ fOut.value[3].job_type = "NB" /\ fOut.value[4].job_type = "DM"

\* the date of instant t as the query writes it
DateStringOf(t) == SubSeq(toISOString(t), 1, 10)

\* C22 (as stated): the 24h filter (daysBack = 1) queries with a cutoff date
\* two days before the current date, the 7d and 30d filters with a cutoff 7
\* and 30 days before the current date.
C22_CutoffPerRange ==
    fOut.valid =>
        LET back == IF fIn.days = 1 THEN 2 ELSE fIn.days
        IN  fOut.query.cutoffStr = DateStringOf(fIn.now - 24 * back)

-----------------------------------------------------------------------------
(* Properties of the ticker *)

\* C30 (as stated): whenever the sorted list is non-empty, tickerIndex is less
\* than its length, so the counter tickerIndex + 1 never exceeds the total;
\* and tickerIndex does not change while the ticker is paused by hovering.
C30_TickerIndexInRange ==
    /\ [](sortedLength > 0 => tickerIndex < sortedLength)
    /\ [][ (tickerPaused /\ tickerPaused') => tickerIndex' = tickerIndex ]_vars
====
